---- MODULE Spec2Model ----
(***************************************************************************)
(* gin-static-server: the path resolver (security.go), the in-memory file  *)
(* cache (cache.go) and the request handlers (handler.go) of the static    *)
(* asset engine.                                                           *)
(*                                                                         *)
(* Strings are sequences of one-character strings, so that Clean, Join,    *)
(* Contains, HasPrefix and SplitList are computed character by character   *)
(* as the Go runtime computes them (Unix: Separator '/', ListSeparator     *)
(* ':').                                                                   *)
(***************************************************************************)
EXTENDS Integers, Sequences, FiniteSets, TLC

VARIABLES
    root,       \* IsPathTraversal's root argument
    relPath,    \* the relPath / path argument
    travOut,    \* what IsPathTraversal returned, NoCall before the call
    hiddenOut   \* what IsHiddenPath returned, NoCall before the call

VARIABLES
    entries,       \* Cache.entries: key -> the cacheEntry stored under it
    totalSize,     \* Cache.totalSize
    fileCount,     \* Cache.fileCount
    evictCounter,  \* Cache.evictCounter
    maxSize,       \* Cache.maxSize
    maxFiles,      \* Cache.maxFiles
    onEvictCalls,  \* the keys Cache.onEvict was called with, in order
    clock          \* the last value time.Now().UnixNano() returned

VARIABLES
    acceptEnc, \* the Accept-Encoding value the compress.go functions get
    containsOut,    \* what containsEncoding returned for it, in a 1-tuple
    compressedOut   \* what GetCompressedData returned for it, in a 1-tuple

VARIABLES
    calls,      \* the Cache calls the single caller has issued so far
    hung        \* a Set spins forever, holding Cache.mu

VARIABLES
    config,     \* StaticEngine.config
    req,        \* the request the engine handled last
    resp,       \* the response to it
    served      \* the number of requests handled

VARIABLES
    procs,      \* goroutine -> its call, its position in it and its locals
    mu,         \* Cache.mu: the goroutine that holds it, 0 when free
    reads,      \* key -> the number of times os.ReadFile read its file
    compresses  \* key -> the number of times its file was compressed

pathVars == <<root, relPath, travOut, hiddenOut>>

encVars == <<acceptEnc, containsOut, compressedOut>>

cacheVars == <<entries, totalSize, fileCount, evictCounter, maxSize, maxFiles,
               onEvictCalls, clock>>

callerVars == <<calls, hung>>

engineVars == <<config, req, resp, served>>

concVars == <<procs, mu, reads, compresses>>

\* what the goroutines of the concurrent specifications leave alone
restVars == <<pathVars, encVars, callerVars, engineVars>>

vars == <<pathVars, encVars, cacheVars, callerVars, engineVars, concVars>>

\* travOut and hiddenOut before the call: no result yet
NoCall == <<>>

-----------------------------------------------------------------------------
(* Bounds of the model *)

\* the longest request path, in '/'-separated segments
MaxSegs == 4

\* the number of Cache calls the single caller issues
MaxCalls == 4

\* the maxSize and the smaller maxFiles that NewCache is given
CfgMaxSize == 4

CfgMaxFiles == 2

\* the longest request path the engine is sent, in segments after the "/"
MaxReqSegs == 2

\* the number of requests the engine handles
MaxRequests == 2

\* the number of goroutines that call the cache concurrently
NumGoroutines == 2

\* the number of calls each goroutine makes
MaxOps == 2

-----------------------------------------------------------------------------
(* strings *)

EmptyStr == <<>>

Slash == "/"

Dot == "."

ListSeparator == ":"

\* strings.HasPrefix
HasPrefix(s, p) ==
    /\ Len(p) <= Len(s)
    /\ SubSeq(s, 1, Len(p)) = p

\* strings.Contains
Contains(s, sub) ==
    \E i \in 1..(Len(s) - Len(sub) + 1) : SubSeq(s, i, i + Len(sub) - 1) = sub

\* strings.TrimPrefix
TrimPrefix(s, p) ==
    IF HasPrefix(s, p) THEN SubSeq(s, Len(p) + 1, Len(s)) ELSE s

\* the index of the first Slash of path at or after r, Len(path)+1 when none
RECURSIVE ElemEnd(_, _)
ElemEnd(path, r) ==
    IF r > Len(path) \/ path[r] = Slash THEN r ELSE ElemEnd(path, r + 1)

\* filepath.Clean's backtracking on "..": drop the last element of out,
\* never going below dotdot (w is the length kept so far)
RECURSIVE Backtrack(_, _, _)
Backtrack(out, w, dotdot) ==
    IF w > dotdot /\ out[w + 1] # Slash
    THEN Backtrack(out, w - 1, dotdot)
    ELSE SubSeq(out, 1, w)

\* the loop of filepath.Clean: r is the next index to read (1-based), out the
\* output so far, dotdot the length of out that ".." may not backtrack over
RECURSIVE CleanLoop(_, _, _, _, _)
CleanLoop(path, rooted, r, out, dotdot) ==
    LET n == Len(path) IN
    IF r > n THEN out
    ELSE IF path[r] = Slash
        THEN CleanLoop(path, rooted, r + 1, out, dotdot)
    ELSE IF path[r] = Dot /\ (r = n \/ path[r + 1] = Slash)
        THEN CleanLoop(path, rooted, r + 1, out, dotdot)
    ELSE IF path[r] = Dot /\ r < n /\ path[r + 1] = Dot
            /\ (r + 1 = n \/ path[r + 2] = Slash)
        THEN IF Len(out) > dotdot
             THEN CleanLoop(path, rooted, r + 2,
                            Backtrack(out, Len(out) - 1, dotdot), dotdot)
             ELSE IF ~rooted
             THEN LET o2 == (IF Len(out) > 0 THEN Append(out, Slash) ELSE out)
                                \o <<Dot, Dot>>
                  IN CleanLoop(path, rooted, r + 2, o2, Len(o2))
             ELSE CleanLoop(path, rooted, r + 2, out, dotdot)
    ELSE LET o1 == IF (rooted /\ Len(out) # 1) \/ (~rooted /\ Len(out) # 0)
                   THEN Append(out, Slash) ELSE out
             e  == ElemEnd(path, r)
         IN CleanLoop(path, rooted, e, o1 \o SubSeq(path, r, e - 1), dotdot)

\* filepath.Clean
Clean(path) ==
    IF path = EmptyStr THEN <<Dot>>
    ELSE LET rooted == path[1] = Slash
             out == CleanLoop(path, rooted,
                              IF rooted THEN 2 ELSE 1,
                              IF rooted THEN <<Slash>> ELSE EmptyStr,
                              IF rooted THEN 1 ELSE 0)
         IN IF out = EmptyStr THEN <<Dot>> ELSE out

\* filepath.Join of two elements: empty elements are ignored, the rest are
\* joined by Slash and cleaned
Join(a, b) ==
    IF a = EmptyStr /\ b = EmptyStr THEN EmptyStr
    ELSE IF a = EmptyStr THEN Clean(b)
    ELSE IF b = EmptyStr THEN Clean(a)
    ELSE Clean(a \o <<Slash>> \o b)

\* strings.Split(s, sep) for a one-character sep
RECURSIVE SplitOn(_, _)
SplitOn(s, sep) ==
    LET e == CHOOSE i \in 1..(Len(s) + 1) :
                 /\ (i = Len(s) + 1 \/ s[i] = sep)
                 /\ \A j \in 1..(i - 1) : s[j] # sep
    IN IF e = Len(s) + 1 THEN <<s>>
       ELSE <<SubSeq(s, 1, e - 1)>> \o SplitOn(SubSeq(s, e + 1, Len(s)), sep)

\* filepath.SplitList: the elements of a ListSeparator-joined list of paths
\* (as in $PATH); the empty string has no elements
SplitList(path) ==
    IF path = EmptyStr THEN <<>> ELSE SplitOn(path, ListSeparator)

\* path without its trailing slashes
RECURSIVE StripSlashes(_)
StripSlashes(s) ==
    IF Len(s) > 0 /\ s[Len(s)] = Slash
    THEN StripSlashes(SubSeq(s, 1, Len(s) - 1)) ELSE s

\* filepath.Base
Base(path) ==
    IF path = EmptyStr THEN <<Dot>>
    ELSE LET t == StripSlashes(path)
             parts == SplitOn(t, Slash)
         IN IF t = EmptyStr THEN <<Slash>> ELSE parts[Len(parts)]

-----------------------------------------------------------------------------
(* security.go *)

\* IsPathTraversal returning the request path as it came instead of the
\* cleaned path it checked
IsPathTraversal_ReturnsRaw(rootArg, pathArg) ==
    LET cleanPath == Clean(<<Slash>> \o pathArg)
        absPath == Join(rootArg, cleanPath)
        rootAbs == Clean(rootArg)
    IN IF Contains(cleanPath, <<Dot, Dot>>) \/ ~HasPrefix(Clean(absPath), rootAbs)
       THEN [ok |-> FALSE, path |-> EmptyStr]
       ELSE [ok |-> TRUE, path |-> pathArg]

\* IsPathTraversal(root, relPath) (bool, string)
IsPathTraversal(rootArg, pathArg) ==
    LET cleanPath == Clean(<<Slash>> \o pathArg)
        absPath == Join(rootArg, cleanPath)
        rootAbs == Clean(rootArg)
        absAbs == Clean(absPath)
        cleanAbsPath == Clean(absPath)
    IN IF Contains(cleanPath, <<Dot, Dot>>)
           THEN [ok |-> FALSE, path |-> EmptyStr]
       ELSE IF ~HasPrefix(absAbs, rootAbs)
           THEN [ok |-> FALSE, path |-> EmptyStr]
       ELSE IF ~HasPrefix(cleanAbsPath, rootAbs)
           THEN [ok |-> FALSE, path |-> EmptyStr]
       ELSE [ok |-> TRUE, path |-> cleanPath]

\* IsHiddenFile(path)
IsHiddenFile(path) ==
    LET base == Base(path) IN Len(base) > 0 /\ base[1] = Dot

\* IsHiddenPath(path)
IsHiddenPath(path) ==
    LET parts == SplitList(path) IN
    \E i \in 1..Len(parts) :
        /\ Len(parts[i]) > 0
        /\ parts[i][1] = Dot
        /\ parts[i] # <<Dot>>
        /\ parts[i] # <<Dot, Dot>>

-----------------------------------------------------------------------------
(* the inputs of the path functions *)

\* the segments request paths are built from: empty (a doubled or leading
\* slash), ".", "..", a plain name, a dot file, a name holding a ListSeparator
\* followed by a dot, and a name holding two dots
Segments ==
    { EmptyStr, <<Dot>>, <<Dot, Dot>>, <<"a">>, <<Dot, "a">>,
      <<"a", ListSeparator, Dot, "a">>, <<"a", Dot, Dot, "a">> }

RECURSIVE JoinSegs(_)
JoinSegs(segs) ==
    IF Len(segs) = 0 THEN EmptyStr
    ELSE IF Len(segs) = 1 THEN segs[1]
    ELSE segs[1] \o <<Slash>> \o JoinSegs(Tail(segs))

\* every path of at most MaxSegs segments
RelPaths ==
    { JoinSegs(segs) : segs \in UNION { [1..n -> Segments] : n \in 0..MaxSegs } }

\* the roots: absolute, relative, nested, with a trailing slash, the working
\* directory, its parent, and the filesystem root
Roots ==
    { <<Slash, "a">>, <<"a">>, <<Slash, "a", Slash, "a">>, <<Slash, "a", Slash>>,
      <<Dot>>, <<Dot, Dot>>, <<Dot, Slash, "a">>, <<Slash>>, EmptyStr }

\* the segments of a cleaned path
SegsOf(path) == SplitOn(path, Slash)

\* abs (cleaned) names root itself or something below it (rootAbs cleaned):
\* what is left of abs after rootAbs has no ".." segment
Inside(abs, rootAbs) ==
    LET rest == IF rootAbs = <<Dot>> THEN abs
                ELSE IF rootAbs = <<Slash>> THEN TrimPrefix(abs, <<Slash>>)
                ELSE TrimPrefix(abs, rootAbs \o <<Slash>>)
        under == \/ rootAbs = <<Dot>> /\ (abs = EmptyStr \/ abs[1] # Slash)
                 \/ rootAbs = <<Slash>> /\ HasPrefix(abs, <<Slash>>)
                 \/ rootAbs \notin {<<Dot>>, <<Slash>>}
                        /\ HasPrefix(abs, rootAbs \o <<Slash>>)
    IN \/ abs = rootAbs
       \/ /\ under
          /\ \A i \in 1..Len(SegsOf(rest)) : SegsOf(rest)[i] # <<Dot, Dot>>

-----------------------------------------------------------------------------
(* the path functions applied to every root and request path *)

PathIdle ==
    /\ root = EmptyStr
    /\ relPath = EmptyStr
    /\ travOut = NoCall
    /\ hiddenOut = NoCall

\* no compress.go function called
EncIdle ==
    /\ acceptEnc = EmptyStr
    /\ containsOut = NoCall
    /\ compressedOut = NoCall

CacheUnused ==
    /\ entries = <<>>
    /\ totalSize = 0
    /\ fileCount = 0
    /\ evictCounter = 0
    /\ maxSize = 0
    /\ maxFiles = 0
    /\ onEvictCalls = <<>>
    /\ clock = 0

CallerIdle ==
    /\ calls = <<>>
    /\ hung = FALSE

\* no engine built
EngineIdle ==
    /\ config = NoCall
    /\ req = NoCall
    /\ resp = NoCall
    /\ served = 0

\* no goroutine runs
ConcIdle ==
    /\ procs = <<>>
    /\ mu = 0
    /\ reads = <<>>
    /\ compresses = <<>>

InitPath ==
    /\ root \in Roots
    /\ relPath \in RelPaths
    /\ travOut = NoCall
    /\ hiddenOut = NoCall
    /\ EncIdle
    /\ CacheUnused
    /\ CallerIdle
    /\ EngineIdle
    /\ ConcIdle

CallIsPathTraversal ==
    /\ travOut = NoCall
    /\ travOut' = <<IsPathTraversal(root, relPath)>>
    /\ UNCHANGED <<root, relPath, hiddenOut, encVars, cacheVars, callerVars, engineVars, concVars>>

CallIsHiddenPath ==
    /\ hiddenOut = NoCall
    /\ hiddenOut' = <<IsHiddenPath(relPath)>>
    /\ UNCHANGED <<root, relPath, travOut, encVars, cacheVars, callerVars, engineVars, concVars>>

NextPath ==
    \/ CallIsPathTraversal
    \/ CallIsHiddenPath

SpecPath == InitPath /\ [][NextPath]_vars

-----------------------------------------------------------------------------
(* cache.go: cacheEntry and Cache *)

\* the cache keys of the model
Keys == { <<Slash, "a">>, <<Slash, "b">>, <<Slash, "c">> }

\* the sizes of the entries handed to Set
EntrySizes == {1, 3}

\* oldestKey before the Range of evictOldest has seen an entry
NoKey == EmptyStr

\* var oldestTime int64 = ^int64(0): the complement of 0 in a signed 64-bit
\* integer
OldestInit == -1

\* the defaults NewCache substitutes for maxSize <= 0 and maxFiles <= 0
DefaultMaxSize == 104857600

DefaultMaxFiles == 500

\* the Cache as one value, spin telling that a loop of evictIfNeeded cannot end
\* and ret holding evictOldest's result
CacheRec ==
    [entries |-> entries, totalSize |-> totalSize, fileCount |-> fileCount,
     evictCounter |-> evictCounter, maxSize |-> maxSize, maxFiles |-> maxFiles,
     onEvictCalls |-> onEvictCalls, spin |-> FALSE, ret |-> FALSE]

CacheBecomes(c) ==
    /\ entries' = c.entries
    /\ totalSize' = c.totalSize
    /\ fileCount' = c.fileCount
    /\ evictCounter' = c.evictCounter
    /\ maxSize' = c.maxSize
    /\ maxFiles' = c.maxFiles
    /\ onEvictCalls' = c.onEvictCalls

\* the cache is c
CacheIs(c) ==
    /\ entries = c.entries
    /\ totalSize = c.totalSize
    /\ fileCount = c.fileCount
    /\ evictCounter = c.evictCounter
    /\ maxSize = c.maxSize
    /\ maxFiles = c.maxFiles
    /\ onEvictCalls = c.onEvictCalls

\* a cacheEntry: Size, LastAccess, and id standing for the pointer (and with
\* it Data, Gzipped, ModTime, ETag)
CacheEntry(size, id) == [Size |-> size, LastAccess |-> 0, id |-> id]

\* NewCache(maxSize, maxFiles, onEvict)
NewCache(maxSizeArg, maxFilesArg) ==
    [entries |-> <<>>,
     totalSize |-> 0,
     fileCount |-> 0,
     evictCounter |-> 0,
     maxSize |-> IF maxSizeArg <= 0 THEN DefaultMaxSize ELSE maxSizeArg,
     maxFiles |-> IF maxFilesArg <= 0 THEN DefaultMaxFiles ELSE maxFilesArg,
     onEvictCalls |-> <<>>, spin |-> FALSE, ret |-> FALSE]

\* sync.Map.Delete
MapDelete(ents, key) == [k \in (DOMAIN ents) \ {key} |-> ents[k]]

\* sync.Map.Store of a key that is absent
MapStore(ents, key, entry) ==
    [k \in (DOMAIN ents) \cup {key} |-> IF k = key THEN entry ELSE ents[k]]

\* the orders in which sync.Map.Range may visit the keys
RangeOrders(ents) ==
    LET n == Cardinality(DOMAIN ents) IN
    { o \in [1..n -> DOMAIN ents] : \A i, j \in 1..n : i # j => o[i] # o[j] }

\* the Range callback of evictOldest over the keys order[i..]: best is
\* (oldestKey, oldestTime) so far
RECURSIVE RangeOldest(_, _, _, _)
RangeOldest(ents, order, i, best) ==
    IF i > Len(order) THEN best
    ELSE LET lastAccess == ents[order[i]].LastAccess IN
         IF lastAccess < best.time
         THEN RangeOldest(ents, order, i + 1,
                          [key |-> order[i], time |-> lastAccess])
         ELSE RangeOldest(ents, order, i + 1, best)

\* Cache.evictOldest when Range visits the keys in this order
evictOldestIn(c, order) ==
    LET best == RangeOldest(c.entries, order, 1,
                            [key |-> NoKey, time |-> OldestInit])
    IN IF best.key = NoKey THEN [c EXCEPT !.ret = FALSE]
       ELSE [c EXCEPT !.entries = MapDelete(c.entries, best.key),
                      !.totalSize = c.totalSize - c.entries[best.key].Size,
                      !.fileCount = c.fileCount - 1,
                      !.evictCounter = c.evictCounter + 1,
                      !.onEvictCalls = Append(c.onEvictCalls, best.key),
                      !.ret = TRUE]

\* Cache.evictOldest: every result it may have
evictOldest(c) == { evictOldestIn(c, order) : order \in RangeOrders(c.entries) }

\* the second loop of evictIfNeeded: evict while the new entry does not fit,
\* break when evictOldest evicted nothing
RECURSIVE evictForSize(_, _)
evictForSize(c, newEntrySize) ==
    IF c.totalSize + newEntrySize > c.maxSize /\ c.totalSize > 0
    THEN UNION { IF r.ret THEN evictForSize(r, newEntrySize) ELSE {r}
                 : r \in evictOldest(c) }
    ELSE {c}

\* the first loop of evictIfNeeded: evict while fileCount >= maxFiles; the
\* result of evictOldest is ignored, so when it evicted nothing the loop
\* repeats in the same state without end (spin)
RECURSIVE evictForFiles(_)
evictForFiles(c) ==
    IF c.fileCount >= c.maxFiles /\ c.fileCount > 0
    THEN UNION { IF r.ret THEN evictForFiles(r) ELSE {[r EXCEPT !.spin = TRUE]}
                 : r \in evictOldest(c) }
    ELSE {c}

\* Cache.evictIfNeeded(newEntrySize): every state it may leave
evictIfNeeded(c, newEntrySize) ==
    UNION { IF d.spin THEN {d} ELSE evictForSize(d, newEntrySize)
            : d \in evictForFiles(c) }

\* the tail of Set: LoadOrStore and the two counters
SetStore(c, key, entry) ==
    LET loaded == key \in DOMAIN c.entries
        afterStore == IF loaded
                      THEN [c EXCEPT !.totalSize = c.totalSize - c.entries[key].Size]
                      ELSE [c EXCEPT !.entries = MapStore(c.entries, key, entry)]
    IN [afterStore EXCEPT !.totalSize = afterStore.totalSize + entry.Size,
                          !.fileCount = afterStore.fileCount + 1]

\* Set after its first evictIfNeeded left state d
SetAfterEvict(d, key, entry) ==
    IF d.spin THEN {d}
    ELSE IF d.totalSize + entry.Size > d.maxSize
    THEN UNION { IF e.spin THEN {e}
                 ELSE IF e.totalSize + entry.Size > e.maxSize THEN {e}
                 ELSE {SetStore(e, key, entry)}
                 : e \in evictIfNeeded(d, entry.Size) }
    ELSE {SetStore(d, key, entry)}

\* Cache.Set(key, entry): every state it may leave; spin when it never returns
CacheSet(c, key, entry) ==
    UNION { SetAfterEvict(d, key, entry) : d \in evictIfNeeded(c, entry.Size) }

\* Get that returns the entry without recording the access
CacheGet_NoTouch(c, key, now) == c

\* Cache.Get(key) at time now: the cache it leaves (the entry it returns is
\* c.entries[key] when key is cached)
CacheGet(c, key, now) ==
    IF key \notin DOMAIN c.entries THEN c
    ELSE [c EXCEPT !.entries[key].LastAccess = now]

\* Delete that lowers the totals and invokes the callback whether or not the
\* key is cached
CacheDelete_Unchecked(c, key) ==
    [c EXCEPT !.entries = MapDelete(c.entries, key),
              !.fileCount = c.fileCount - 1,
              !.onEvictCalls = Append(c.onEvictCalls, key)]

\* Cache.Delete(key)
CacheDelete(c, key) ==
    IF key \notin DOMAIN c.entries THEN c
    ELSE [c EXCEPT !.entries = MapDelete(c.entries, key),
                   !.totalSize = c.totalSize - c.entries[key].Size,
                   !.fileCount = c.fileCount - 1,
                   !.onEvictCalls = Append(c.onEvictCalls, key)]

\* Clear that empties the map and leaves the two totals as they were
CacheClear_KeepsTotals(c) ==
    [c EXCEPT !.entries = <<>>]

\* Cache.Clear()
CacheClear(c) ==
    [c EXCEPT !.entries = <<>>, !.totalSize = 0, !.fileCount = 0]

\* Cache.Size()
Size == totalSize

\* Cache.FileCount()
FileCount == fileCount

\* Cache.EvictCount()
EvictCount == evictCounter

-----------------------------------------------------------------------------
(* one caller issuing Cache calls one at a time *)

\* the record of a call: Get's ret is whether it hit, Set's whether it returned
Call(op, key, size, ret) == [op |-> op, key |-> key, size |-> size, ret |-> ret]

\* the (maxSize, maxFiles) that NewCache is called with: two small caches and
\* the defaults
NewCacheArgs ==
    { <<CfgMaxSize, CfgMaxFiles>>, <<CfgMaxSize, CfgMaxFiles + 1>>, <<0, 0>> }

Init ==
    /\ \E args \in NewCacheArgs :
         LET c == NewCache(args[1], args[2]) IN
         /\ entries = c.entries
         /\ totalSize = c.totalSize
         /\ fileCount = c.fileCount
         /\ evictCounter = c.evictCounter
         /\ maxSize = c.maxSize
         /\ maxFiles = c.maxFiles
         /\ onEvictCalls = c.onEvictCalls
    /\ clock = 1
    /\ CallerIdle
    /\ PathIdle
    /\ EncIdle
    /\ EngineIdle
    /\ ConcIdle

CanCall == ~hung /\ Len(calls) < MaxCalls

\* cache.Set(key, &cacheEntry{Size: size}) with a fresh entry
Set(key, size) ==
    /\ CanCall
    /\ \E c \in CacheSet(CacheRec, key, CacheEntry(size, Len(calls) + 1)) :
         /\ CacheBecomes(c)
         /\ hung' = c.spin
         /\ calls' = Append(calls, Call("Set", key, size, ~c.spin))
    /\ UNCHANGED <<clock, pathVars, encVars, engineVars, concVars>>

\* cache.Get(key); time.Now() has advanced since it was last read
Get(key) ==
    /\ CanCall
    /\ clock' = clock + 1
    /\ CacheBecomes(CacheGet(CacheRec, key, clock'))
    /\ calls' = Append(calls, Call("Get", key, 0, key \in DOMAIN entries))
    /\ UNCHANGED <<hung, pathVars, encVars, engineVars, concVars>>

\* cache.Delete(key)
Delete(key) ==
    /\ CanCall
    /\ CacheBecomes(CacheDelete(CacheRec, key))
    /\ calls' = Append(calls, Call("Delete", key, 0, TRUE))
    /\ UNCHANGED <<clock, hung, pathVars, encVars, engineVars, concVars>>

\* cache.Clear()
Clear ==
    /\ CanCall
    /\ CacheBecomes(CacheClear(CacheRec))
    /\ calls' = Append(calls, Call("Clear", NoKey, 0, TRUE))
    /\ UNCHANGED <<clock, hung, pathVars, encVars, engineVars, concVars>>

Next ==
    \/ \E key \in Keys, size \in EntrySizes : Set(key, size)
    \/ \E key \in Keys : Get(key)
    \/ \E key \in Keys : Delete(key)
    \/ Clear

Spec == Init /\ [][Next]_vars

-----------------------------------------------------------------------------
(* compress.go *)

Comma == ","

Space == " "

\* the characters of the Accept-Encoding values of the model in ASCII order,
\* for the byte comparisons s[i] > ' ' and q[0] > '0'
CharOrder ==
    << Space, Comma, Dot, "0", "1", "5", ";", "=", "a", "d", "e", "f", "g", "i",
       "l", "p", "q", "s", "t", "z" >>

Ord(ch) == CHOOSE i \in 1..Len(CharOrder) : CharOrder[i] = ch

GzipName == <<"g", "z", "i", "p">>

ZstdName == <<"z", "s", "t", "d">>

\* splitComma(s): the non-empty runs of s between commas
RECURSIVE splitCommaFrom(_, _, _)
splitCommaFrom(s, i, current) ==
    IF i > Len(s)
    THEN IF Len(current) > 0 THEN <<current>> ELSE <<>>
    ELSE IF s[i] = Comma
    THEN IF Len(current) > 0
         THEN <<current>> \o splitCommaFrom(s, i + 1, EmptyStr)
         ELSE splitCommaFrom(s, i + 1, current)
    ELSE splitCommaFrom(s, i + 1, Append(current, s[i]))

splitComma(s) == splitCommaFrom(s, 1, EmptyStr)

\* stripWhitespace(s): the bytes of s above ' '
stripWhitespace(s) == SelectSeq(s, LAMBDA ch : Ord(ch) > Ord(Space))

\* containsEncoding(acceptEncoding, encoding)
containsEncoding(acceptEncoding, encodingArg) ==
    IF acceptEncoding = EmptyStr THEN FALSE
    ELSE LET encoding == encodingArg \o <<Comma>>
             encodingQ == encoding \o <<";", "q", "=">>
             parts == splitComma(acceptEncoding)
         IN \E i \in 1..Len(parts) :
              LET part == stripWhitespace(parts[i]) IN
              \/ part = encoding
              \/ /\ Len(part) > Len(encodingQ)
                 /\ SubSeq(part, 1, Len(encodingQ)) = encodingQ
                 /\ LET q == SubSeq(part, Len(encodingQ) + 1, Len(part))
                    IN Len(q) > 0 /\ Ord(q[1]) > Ord("0")

\* no bytes: a nil []byte
NoBytes == [kind |-> "nil", of |-> "", len |-> 0, gz |-> 0]

\* the bytes of a file: its name stands for its content, gz is the length
\* of their gzip form
RawBytes(file) ==
    [kind |-> "raw", of |-> file.Name, len |-> file.Size, gz |-> file.GzSize]

\* GzipCompress(data, level): the gzip form of data; the writer is a
\* bytes.Buffer, which returns no error
GzipCompress(data) ==
    [kind |-> "gzip", of |-> data.of, len |-> data.gz, gz |-> data.gz]

\* GetCompressedData(data, gzData, zstdData, acceptEncoding)
GetCompressedData(data, gzData, zstdData, acceptEncoding) ==
    IF zstdData # NoBytes /\ containsEncoding(acceptEncoding, ZstdName)
        THEN [data |-> zstdData, encoding |-> ZstdName, ok |-> TRUE]
    ELSE IF gzData # NoBytes /\ containsEncoding(acceptEncoding, GzipName)
        THEN [data |-> gzData, encoding |-> GzipName, ok |-> TRUE]
    ELSE [data |-> data, encoding |-> EmptyStr, ok |-> FALSE]

-----------------------------------------------------------------------------
(* compress.go called on Accept-Encoding values *)

\* the most tokens an Accept-Encoding value of the model has
MaxTokens == 2

DeflateName == <<"d", "e", "f", "l", "a", "t", "e">>

\* the tokens of the Accept-Encoding values: the encodings, and gzip with the
\* weights q=0, q=0.5 and q=1
EncTokens ==
    { GzipName, DeflateName, ZstdName,
      GzipName \o <<";", "q", "=", "0">>,
      GzipName \o <<";", "q", "=", "0", Dot, "5">>,
      GzipName \o <<";", "q", "=", "1">> }

\* strings.Join(tokens, sep)
RECURSIVE JoinTokens(_, _)
JoinTokens(tokens, sep) ==
    IF tokens = <<>> THEN EmptyStr
    ELSE IF Len(tokens) = 1 THEN tokens[1]
    ELSE tokens[1] \o sep \o JoinTokens(Tail(tokens), sep)

\* the Accept-Encoding values: up to MaxTokens tokens separated by "," or ", "
AcceptEncodings ==
    { JoinTokens(tokens, sep) :
        tokens \in UNION { [1..n -> EncTokens] : n \in 0..MaxTokens },
        sep \in { <<Comma>>, <<Comma, Space>> } }

\* the data and gzData of TestGetCompressedData: 13 bytes and their gzip form
TestData == [kind |-> "raw", of |-> "h", len |-> 13, gz |-> 2]

InitEnc ==
    /\ acceptEnc \in AcceptEncodings
    /\ containsOut = NoCall
    /\ compressedOut = NoCall
    /\ PathIdle
    /\ CacheUnused
    /\ CallerIdle
    /\ EngineIdle
    /\ ConcIdle

CallContainsEncoding ==
    /\ containsOut = NoCall
    /\ containsOut' = <<containsEncoding(acceptEnc, GzipName)>>
    /\ UNCHANGED <<acceptEnc, compressedOut, pathVars, cacheVars,
                   callerVars, engineVars, concVars>>

CallGetCompressedData ==
    /\ compressedOut = NoCall
    /\ compressedOut' = <<GetCompressedData(TestData, GzipCompress(TestData),
                                            NoBytes, acceptEnc)>>
    /\ UNCHANGED <<acceptEnc, containsOut, pathVars, cacheVars,
                   callerVars, engineVars, concVars>>

NextEnc ==
    \/ CallContainsEncoding
    \/ CallGetCompressedData

SpecEnc == InitEnc /\ [][NextEnc]_vars

-----------------------------------------------------------------------------
(* handler.go: StaticEngine *)

\* Config.CompressMinSize of the model's engines
CompressMinSize == 2

\* the root directory of the model's engines
EngineRoot == <<Slash, "r">>

\* Config.IndexFile of the model's engines
IndexFile == <<"i">>

\* a file of the content store: Name stands for its bytes, GzSize is the
\* length of their gzip form, ModTime is (seconds, nanoseconds)
File(name, size, gzSize, modTime) ==
    [Name |-> name, Size |-> size, GzSize |-> gzSize, ModTime |-> modTime]

\* the files on disk by absolute path: under the root a file, a dot file and
\* the index document, outside the root a secret
FS ==
    (EngineRoot \o <<Slash, "a">> :> File("a", 3, 2, <<5, 0>>)) @@
    (EngineRoot \o <<Slash, Dot, "a">> :> File(".a", 1, 2, <<5, 7>>)) @@
    (EngineRoot \o <<Slash>> \o IndexFile :> File("i", 2, 3, <<6, 0>>)) @@
    (<<Slash, "s">> :> File("s", 1, 2, <<6, 0>>))

\* time.Time{}
ZeroTime == <<0, 0>>

\* generateETag(path, info): the hash of size, mtime and path, which stands
\* for itself
generateETag(absPath, info) == <<info.Size, info.ModTime, absPath>>

\* modTime.UTC().Format(http.TimeFormat): the seconds, the nanoseconds dropped
FormatHTTPTime(modTime) == <<modTime[1]>>

\* time.Parse(http.TimeFormat, s)
ParseHTTPTime(s) == <<s[1], 0>>

\* t.After(u)
After(t, u) == t[1] > u[1] \/ (t[1] = u[1] /\ t[2] > u[2])

\* the Config of an engine built by New(router, EngineRoot, opts...): the
\* fields the handlers read
Config(hideDotFiles, spa, enableCache, onRequest) ==
    [Root |-> Clean(EngineRoot),
     EnableCache |-> enableCache,
     EnableGzip |-> TRUE,
     CompressMinSize |-> CompressMinSize,
     EnableSPA |-> spa,
     IndexFile |-> IndexFile,
     SPAFallback |-> spa,
     HideDotFiles |-> hideDotFiles,
     UseETag |-> TRUE,
     OnRequest |-> onRequest]

\* Config.OnRequest == nil
NilCallback == [nil |-> TRUE, denied |-> {}]

\* an OnRequest callback that returns false for the paths in denied
Callback(denied) == [nil |-> FALSE, denied |-> denied]

\* the engine while a handler runs: the cache, the clock, whether a Set
\* holds Cache.mu forever, and what the handler passed to os.ReadFile
EngineRec ==
    [c |-> CacheRec, clock |-> clock, hung |-> hung, reads |-> <<>>]

\* what getFile returns (data, modTime, etag, err) and the engine it leaves;
\* blocked when it never returns
FileResult(st, data, modTime, etag, err, blocked) ==
    [st |-> st, data |-> data, modTime |-> modTime, etag |-> etag,
     err |-> err, blocked |-> blocked]

\* StaticEngine.getOSFile(path)
getOSFile(cfg, path) ==
    LET absPath == Join(cfg.Root, path) IN
    IF absPath \in DOMAIN FS
    THEN [data |-> RawBytes(FS[absPath]), modTime |-> FS[absPath].ModTime,
          etag |-> generateETag(absPath, FS[absPath]), err |-> FALSE,
          absPath |-> absPath]
    ELSE [data |-> NoBytes, modTime |-> ZeroTime, etag |-> EmptyStr,
          err |-> TRUE, absPath |-> absPath]

\* the cacheEntry getFile builds for the file it read
FileEntry(cfg, f) ==
    [Data |-> f.data, ModTime |-> f.modTime, Size |-> f.data.len,
     ETag |-> f.etag, LastAccess |-> 0,
     Gzipped |-> IF cfg.EnableGzip /\ f.data.len >= cfg.CompressMinSize
                 THEN GzipCompress(f.data) ELSE NoBytes]

\* Cache.Get(path) by a handler: on a hit time.Now() is read
EngineGet(st, path) ==
    IF path \in DOMAIN st.c.entries
    THEN [st EXCEPT !.clock = st.clock + 1,
                    !.c = CacheGet(st.c, path, st.clock + 1)]
    ELSE st

\* StaticEngine.getFile(path): every result it may have
getFile(cfg, st, path) ==
    IF cfg.EnableCache /\ path \in DOMAIN st.c.entries
    THEN LET entry == st.c.entries[path] IN
         { FileResult(EngineGet(st, path), entry.Data, entry.ModTime,
                      entry.ETag, FALSE, FALSE) }
    ELSE LET f == getOSFile(cfg, path)
             st1 == [st EXCEPT !.reads = Append(st.reads, f.absPath)]
         IN IF f.err
            THEN { FileResult(st1, NoBytes, ZeroTime, EmptyStr, TRUE, FALSE) }
            ELSE IF ~cfg.EnableCache
            THEN { FileResult(st1, f.data, f.modTime, f.etag, FALSE, FALSE) }
            ELSE IF st1.hung
            THEN { FileResult(st1, f.data, f.modTime, f.etag, FALSE, TRUE) }
            ELSE { FileResult([st1 EXCEPT !.c = d, !.hung = d.spin],
                              f.data, f.modTime, f.etag, FALSE, d.spin)
                   : d \in CacheSet(st1.c, path, FileEntry(cfg, f)) }

\* StaticEngine.checkNotModified(c, modTime, etag)
checkNotModified(cfg, request, modTime, etag) ==
    \/ /\ cfg.UseETag
       /\ request.ifNoneMatch # EmptyStr
       /\ request.ifNoneMatch = etag
    \/ /\ request.ifModifiedSince # EmptyStr
       /\ ~After(modTime, ParseHTTPTime(request.ifModifiedSince))

\* StaticEngine.getCompressedData(c, data, path): the body, its encoding and
\* the engine it leaves
getCompressedData(cfg, st, request, data, path) ==
    IF ~cfg.EnableGzip
        THEN [st |-> st, data |-> data, encoding |-> EmptyStr]
    ELSE IF data.len < cfg.CompressMinSize
        THEN [st |-> st, data |-> data, encoding |-> EmptyStr]
    ELSE LET cached == cfg.EnableCache /\ path \in DOMAIN st.c.entries
             st1 == IF cfg.EnableCache THEN EngineGet(st, path) ELSE st
             fromCache ==
                 IF cached /\ st.c.entries[path].Gzipped # NoBytes
                 THEN GetCompressedData(data, st.c.entries[path].Gzipped,
                                        NoBytes, request.acceptEncoding)
                 ELSE [data |-> data, encoding |-> EmptyStr, ok |-> FALSE]
             gzData == GzipCompress(data)
         IN IF fromCache.ok
                THEN [st |-> st1, data |-> fromCache.data,
                      encoding |-> fromCache.encoding]
            ELSE IF /\ containsEncoding(request.acceptEncoding, GzipName)
                    /\ gzData.len < data.len
                THEN [st |-> st1, data |-> gzData, encoding |-> GzipName]
            ELSE [st |-> st1, data |-> data, encoding |-> EmptyStr]

\* the statuses of the responses; NoStatus when the handler never returns
StatusOK == 200

StatusNotModified == 304

StatusForbidden == 403

StatusNotFound == 404

NoStatus == 0

\* a response: the status, the body, the headers the handlers set, the
\* resolved path (cleanPath) and what the handler passed to os.ReadFile
Response(status, body, hdr, cleanPath, readPaths) ==
    [status |-> status, body |-> body, header |-> hdr,
     cleanPath |-> cleanPath, reads |-> readPaths]

\* no header set
NoHeader ==
    [LastModified |-> EmptyStr, ETag |-> EmptyStr, ContentEncoding |-> EmptyStr,
     Vary |-> FALSE, ContentLength |-> -1]

\* the body of c.JSON(http.StatusForbidden, gin.H{"error": "forbidden"})
ForbiddenBody == [kind |-> "json", of |-> "forbidden", len |-> 21, gz |-> 0]

\* a handler's outcome: the engine it leaves and its response
Outcome(st, status, body, hdr, cleanPath) ==
    [st |-> st, resp |-> Response(status, body, hdr, cleanPath, st.reads)]

\* sendFile with Content-Encoding set from what the request accepts, before
\* the body is selected
sendFile_EncodingFromRequest(cfg, request, cleanPath, g) ==
    IF checkNotModified(cfg, request, g.modTime, g.etag)
    THEN Outcome(g.st, StatusNotModified, NoBytes, NoHeader, cleanPath)
    ELSE LET z == getCompressedData(cfg, g.st, request, g.data, cleanPath)
             hdr == [LastModified |-> FormatHTTPTime(g.modTime),
                     ETag |-> IF cfg.UseETag THEN g.etag ELSE EmptyStr,
                     ContentEncoding |-> request.acceptEncoding,
                     Vary |-> request.acceptEncoding # EmptyStr,
                     ContentLength |-> z.data.len]
         IN Outcome(z.st, StatusOK, z.data, hdr, cleanPath)

\* the part serveStatic and serveSPA share, from the conditional-request
\* check to c.Data: g is what getFile returned for the file to send
sendFile(cfg, request, cleanPath, g) ==
    IF checkNotModified(cfg, request, g.modTime, g.etag)
    THEN Outcome(g.st, StatusNotModified, NoBytes, NoHeader, cleanPath)
    ELSE LET z == getCompressedData(cfg, g.st, request, g.data, cleanPath)
             hdr == [LastModified |-> FormatHTTPTime(g.modTime),
                     ETag |-> IF cfg.UseETag THEN g.etag ELSE EmptyStr,
                     ContentEncoding |-> z.encoding,
                     Vary |-> z.encoding # EmptyStr,
                     ContentLength |-> z.data.len]
         IN Outcome(z.st, StatusOK, z.data, hdr, cleanPath)

\* a handler that never returns: its getFile waits in Cache.Set
neverReturns(g, cleanPath) ==
    Outcome(g.st, NoStatus, NoBytes, NoHeader, cleanPath)

\* serveStatic with the admission callback consulted only after the file was
\* looked up
serveStatic_LooksUpFirst(cfg, st, request) ==
    LET param == request.path
        path == TrimPrefix(IF param = EmptyStr \/ param = <<Slash>>
                           THEN <<Slash>> \o cfg.IndexFile ELSE param,
                           <<Slash>>)
        trav == IsPathTraversal(cfg.Root, path)
        cleanPath == trav.path
    IN IF ~trav.ok
           THEN { Outcome(st, StatusForbidden, ForbiddenBody, NoHeader, cleanPath) }
       ELSE IF cfg.HideDotFiles /\ IsHiddenPath(cleanPath)
           THEN { Outcome(st, StatusForbidden, ForbiddenBody, NoHeader, cleanPath) }
       ELSE UNION {
           IF g.blocked THEN { neverReturns(g, cleanPath) }
           ELSE IF ~cfg.OnRequest.nil /\ cleanPath \in cfg.OnRequest.denied
           THEN { Outcome(g.st, StatusForbidden, ForbiddenBody, NoHeader,
                          cleanPath) }
           ELSE IF ~g.err THEN { sendFile(cfg, request, cleanPath, g) }
           ELSE { Outcome(g.st, StatusNotFound, NoBytes, NoHeader, cleanPath) }
           : g \in getFile(cfg, st, cleanPath) }

\* the handler serveStatic() returns, run on one request: every outcome
serveStatic(cfg, st, request) ==
    LET param == request.path
        path == TrimPrefix(IF param = EmptyStr \/ param = <<Slash>>
                           THEN <<Slash>> \o cfg.IndexFile ELSE param,
                           <<Slash>>)
        trav == IsPathTraversal(cfg.Root, path)
        cleanPath == trav.path
    IN IF ~trav.ok
           THEN { Outcome(st, StatusForbidden, ForbiddenBody, NoHeader, cleanPath) }
       ELSE IF cfg.HideDotFiles /\ IsHiddenPath(cleanPath)
           THEN { Outcome(st, StatusForbidden, ForbiddenBody, NoHeader, cleanPath) }
       ELSE IF ~cfg.OnRequest.nil /\ cleanPath \in cfg.OnRequest.denied
           THEN { Outcome(st, StatusForbidden, ForbiddenBody, NoHeader, cleanPath) }
       ELSE UNION {
           IF g.blocked THEN { neverReturns(g, cleanPath) }
           ELSE IF ~g.err THEN { sendFile(cfg, request, cleanPath, g) }
           ELSE IF cfg.EnableSPA /\ cfg.SPAFallback
           THEN { IF h.blocked THEN neverReturns(h, cleanPath)
                  ELSE IF h.err
                  THEN Outcome(h.st, StatusNotFound, NoBytes, NoHeader, cleanPath)
                  ELSE sendFile(cfg, request, cleanPath, h)
                  : h \in getFile(cfg, g.st, cfg.IndexFile) }
           ELSE { Outcome(g.st, StatusNotFound, NoBytes, NoHeader, cleanPath) }
           : g \in getFile(cfg, st, cleanPath) }

\* the handler serveSPA() returns, run on one request: every outcome
serveSPA(cfg, st, request) ==
    LET path == TrimPrefix(request.path, <<Slash>>)
        trav == IsPathTraversal(cfg.Root, path)
        cleanPath == trav.path
    IN IF ~trav.ok
           THEN { Outcome(st, StatusForbidden, ForbiddenBody, NoHeader, cleanPath) }
       ELSE IF ~cfg.OnRequest.nil /\ cleanPath \in cfg.OnRequest.denied
           THEN { Outcome(st, StatusForbidden, ForbiddenBody, NoHeader, cleanPath) }
       ELSE UNION {
           IF g.blocked THEN { neverReturns(g, cleanPath) }
           ELSE IF g.err \/ cleanPath = EmptyStr
           THEN { IF h.blocked THEN neverReturns(h, cfg.IndexFile)
                  ELSE IF h.err
                  THEN Outcome(h.st, StatusNotFound, NoBytes, NoHeader,
                               cfg.IndexFile)
                  ELSE sendFile(cfg, request, cfg.IndexFile, h)
                  : h \in getFile(cfg, g.st, cfg.IndexFile) }
           ELSE { sendFile(cfg, request, cleanPath, g) }
           : g \in getFile(cfg, st, cleanPath) }

-----------------------------------------------------------------------------
(* The engine serving requests one at a time *)

\* the segments of the request paths
ReqSegments == { EmptyStr, <<Dot, Dot>>, <<"a">>, <<Dot, "a">>, <<"s">> }

\* two request paths the checks of the handlers refuse: a name that holds
\* "..", and a name that holds a ListSeparator followed by a dot
RefusedPaths ==
    { <<Slash, "a", Dot, Dot, "a">>, <<Slash, "a", ListSeparator, Dot, "a">> }

\* c.Param("path") of the route prefix+"/*path": "/" and the rest of the URL
ReqPaths ==
    { <<Slash>> \o JoinSegs(segs) :
        segs \in UNION { [1..n -> ReqSegments] : n \in 0..MaxReqSegs } }
    \cup RefusedPaths

\* the If-None-Match, If-Modified-Since and Accept-Encoding headers of the
\* requests; EmptyStr when the header is absent
ReqHeaders ==
    LET a == EngineRoot \o <<Slash, "a">>
    IN { [ifNoneMatch |-> EmptyStr, ifModifiedSince |-> EmptyStr,
          acceptEncoding |-> EmptyStr],
         [ifNoneMatch |-> EmptyStr, ifModifiedSince |-> EmptyStr,
          acceptEncoding |-> GzipName],
         [ifNoneMatch |-> generateETag(a, FS[a]), ifModifiedSince |-> EmptyStr,
          acceptEncoding |-> EmptyStr],
         [ifNoneMatch |-> EmptyStr,
          ifModifiedSince |-> FormatHTTPTime(FS[a].ModTime),
          acceptEncoding |-> GzipName] }

Request(path, hdr) ==
    [path |-> path, ifNoneMatch |-> hdr.ifNoneMatch,
     ifModifiedSince |-> hdr.ifModifiedSince,
     acceptEncoding |-> hdr.acceptEncoding]

Requests == { Request(path, hdr) : path \in ReqPaths, hdr \in ReqHeaders }

\* the engines of the model: New(router, EngineRoot) with HideDotFiles(),
\* WithSPA(IndexFile), DisableCache() and WithOnRequest(fn) or without
Configs ==
    { Config(hideDotFiles, spa, enableCache, onRequest) :
        hideDotFiles \in BOOLEAN, spa \in BOOLEAN, enableCache \in BOOLEAN,
        onRequest \in { NilCallback, Callback({ <<Slash, "a">> }) } }

\* New(router, EngineRoot, WithCache(CfgMaxSize, CfgMaxFiles - 1), opts...):
\* a cache that is full once it holds CfgMaxFiles - 1 files
InitServe ==
    /\ config \in Configs
    /\ CacheIs(NewCache(CfgMaxSize, CfgMaxFiles - 1))
    /\ clock = 1
    /\ req = NoCall
    /\ resp = NoCall
    /\ served = 0
    /\ CallerIdle
    /\ PathIdle
    /\ EncIdle
    /\ ConcIdle

\* the engine after a handler ran
EngineBecomes(out) ==
    /\ CacheBecomes(out.st.c)
    /\ clock' = out.st.clock
    /\ hung' = out.st.hung
    /\ resp' = out.resp

\* registerRoutes: the route is served by serveSPA when EnableSPA and
\* SPAFallback are set, by serveStatic otherwise
RoutedToSPA == config.EnableSPA /\ config.SPAFallback

\* a GET request handled by serveStatic
ServeStatic(request) ==
    /\ served < MaxRequests
    /\ ~RoutedToSPA
    /\ \E out \in serveStatic(config, EngineRec, request) : EngineBecomes(out)
    /\ req' = request
    /\ served' = served + 1
    /\ UNCHANGED <<config, calls, pathVars, encVars, concVars>>

\* a GET request handled by serveSPA
ServeSPA(request) ==
    /\ served < MaxRequests
    /\ RoutedToSPA
    /\ \E out \in serveSPA(config, EngineRec, request) : EngineBecomes(out)
    /\ req' = request
    /\ served' = served + 1
    /\ UNCHANGED <<config, calls, pathVars, encVars, concVars>>

NextServe ==
    \/ \E request \in Requests : ServeStatic(request)
    \/ \E request \in Requests : ServeSPA(request)

SpecServe == InitServe /\ [][NextServe]_vars

-----------------------------------------------------------------------------
(* The engine as an http.Handler *)

\* the body of http.Error(w, msg, code)
ErrorBody(msg) == [kind |-> "text", of |-> msg, len |-> Len(msg) + 1, gz |-> 0]

\* StaticEngine.checkHTTPNotModified(r, modTime, etag)
checkHTTPNotModified(cfg, request, modTime, etag) ==
    \/ /\ cfg.UseETag
       /\ request.ifNoneMatch # EmptyStr
       /\ request.ifNoneMatch = etag
    \/ /\ request.ifModifiedSince # EmptyStr
       /\ ~After(modTime, ParseHTTPTime(request.ifModifiedSince))

\* ServeHTTP from the conditional-request check to w.Write: g is what
\* getFile returned for the file to send
writeFile(cfg, request, cleanPath, g) ==
    IF checkHTTPNotModified(cfg, request, g.modTime, g.etag)
    THEN Outcome(g.st, StatusNotModified, NoBytes, NoHeader, cleanPath)
    ELSE LET gzData == GzipCompress(g.data)
             gzip == /\ cfg.EnableGzip
                     /\ g.data.len >= cfg.CompressMinSize
                     /\ containsEncoding(request.acceptEncoding, GzipName)
                     /\ gzData.len < g.data.len
             data == IF gzip THEN gzData ELSE g.data
             hdr == [LastModified |-> FormatHTTPTime(g.modTime),
                     ETag |-> IF cfg.UseETag THEN g.etag ELSE EmptyStr,
                     ContentEncoding |-> IF gzip THEN GzipName ELSE EmptyStr,
                     Vary |-> gzip,
                     ContentLength |-> data.len]
         IN Outcome(g.st, StatusOK, data, hdr, cleanPath)

\* StaticEngine.ServeHTTP(w, r), run on one request: every outcome
ServeHTTP(cfg, st, request) ==
    LET path == request.path
        trav == IsPathTraversal(cfg.Root, path)
        cleanPath == trav.path
    IN IF ~trav.ok
           THEN { Outcome(st, StatusForbidden, ErrorBody("forbidden"), NoHeader,
                          cleanPath) }
       ELSE IF cfg.HideDotFiles /\ IsHiddenPath(cleanPath)
           THEN { Outcome(st, StatusForbidden, ErrorBody("forbidden"), NoHeader,
                          cleanPath) }
       ELSE UNION {
           IF g.blocked THEN { neverReturns(g, cleanPath) }
           ELSE IF ~g.err THEN { writeFile(cfg, request, cleanPath, g) }
           ELSE IF cfg.EnableSPA /\ cfg.SPAFallback
           THEN { IF h.blocked THEN neverReturns(h, cleanPath)
                  ELSE IF h.err
                  THEN Outcome(h.st, StatusNotFound, ErrorBody("not found"),
                               NoHeader, cleanPath)
                  ELSE writeFile(cfg, request, cleanPath, h)
                  : h \in getFile(cfg, g.st, cfg.IndexFile) }
           ELSE { Outcome(g.st, StatusNotFound, ErrorBody("not found"),
                          NoHeader, cleanPath) }
           : g \in getFile(cfg, st, cleanPath) }

\* a request handled by ServeHTTP
CallServeHTTP(request) ==
    /\ served < MaxRequests
    /\ \E out \in ServeHTTP(config, EngineRec, request) : EngineBecomes(out)
    /\ req' = request
    /\ served' = served + 1
    /\ UNCHANGED <<config, calls, pathVars, encVars, concVars>>

NextHTTP == \E request \in Requests : CallServeHTTP(request)

SpecHTTP == InitServe /\ [][NextHTTP]_vars

-----------------------------------------------------------------------------
(* Conditional requests to an engine whose cache is reset between them *)

\* the requests of a client that revalidates "/a": with and without the ETag
\* of /r/a in If-None-Match, and requests for a second file
RevalRequests ==
    LET a == EngineRoot \o <<Slash, "a">>
    IN { [path |-> path, ifNoneMatch |-> inm, ifModifiedSince |-> EmptyStr,
          acceptEncoding |-> EmptyStr] :
            path \in { <<Slash, "a">>, <<Slash, Dot, "a">> },
            inm \in { EmptyStr, generateETag(a, FS[a]) } }

\* one request and the response it got
Exchange(request, response) == [req |-> request, resp |-> response]

\* a GET request handled by the route of the engine; the exchange is logged
Revalidate(request) ==
    /\ served < MaxRequests + 1
    /\ \E out \in (IF RoutedToSPA THEN serveSPA(config, EngineRec, request)
                   ELSE serveStatic(config, EngineRec, request)) :
          /\ EngineBecomes(out)
          /\ calls' = Append(calls, Exchange(request, out.resp))
    /\ req' = request
    /\ served' = served + 1
    /\ UNCHANGED <<config, pathVars, encVars, concVars>>

\* StaticEngine.ResetCache(): waits for the mutex a spinning Set holds
ResetCache ==
    /\ ~hung
    /\ CacheBecomes(CacheClear(CacheRec))
    /\ UNCHANGED <<clock, calls, hung, pathVars, encVars, engineVars, concVars>>

NextReval ==
    \/ \E request \in RevalRequests : Revalidate(request)
    \/ ResetCache

SpecReval == InitServe /\ [][NextReval]_vars

\* New(router, EngineRoot, WithCache(n, CfgMaxFiles - 1), opts...) with n one
\* byte less than the file /r/a: the file is larger than the whole cache
InitOversize ==
    /\ config \in Configs
    /\ CacheIs(NewCache(FS[EngineRoot \o <<Slash, "a">>].Size - 1,
                        CfgMaxFiles - 1))
    /\ clock = 1
    /\ req = NoCall
    /\ resp = NoCall
    /\ served = 0
    /\ CallerIdle
    /\ PathIdle
    /\ EncIdle
    /\ ConcIdle

SpecOversize == InitOversize /\ [][NextReval]_vars

-----------------------------------------------------------------------------
(* Preloading: Cache.LoadFile and Cache.preloadDirectory *)

\* the size from which LoadFile compresses an entry
LoadFileMinSize == 1024

\* filepath.Rel(root, path) for a path filepath.Walk(root, ...) hands to its
\* callback: the part of path below root
Rel(rootArg, path) == SubSeq(path, Len(rootArg) + 2, Len(path))

\* a is before b in the lexical order of filepath.Walk
RECURSIVE LexLess(_, _)
LexLess(a, b) ==
    IF a = EmptyStr THEN b # EmptyStr
    ELSE IF b = EmptyStr THEN FALSE
    ELSE IF a[1] = b[1] THEN LexLess(Tail(a), Tail(b))
    ELSE Ord(a[1]) < Ord(b[1])

\* the files filepath.Walk(root, ...) visits, in its order
WalkFiles(rootArg) ==
    LET below == { path \in DOMAIN FS : HasPrefix(path, rootArg \o <<Slash>>) }
        n == Cardinality(below)
    IN CHOOSE order \in [1..n -> below] :
           \A i, j \in 1..n :
               i < j => LexLess(Rel(rootArg, order[i]), Rel(rootArg, order[j]))

\* Cache.LoadFile(root, relPath, enableGzip, gzipLevel) called on engine st:
\* every engine it may leave, hung when its Set never returns
LoadFile(st, rootArg, relArg, enableGzip) ==
    IF relArg \in DOMAIN st.c.entries
    THEN { EngineGet(st, relArg) }
    ELSE LET absPath == Join(rootArg, relArg)
             st1 == [st EXCEPT !.reads = Append(st.reads, absPath)]
         IN IF absPath \notin DOMAIN FS THEN { st1 }
            ELSE LET data == RawBytes(FS[absPath])
                     entry ==
                         [Data |-> data, ModTime |-> FS[absPath].ModTime,
                          Size |-> FS[absPath].Size,
                          ETag |-> generateETag(absPath, FS[absPath]),
                          LastAccess |-> 0,
                          Gzipped |-> IF enableGzip /\ data.len >= LoadFileMinSize
                                      THEN GzipCompress(data) ELSE NoBytes]
                 IN { [st1 EXCEPT !.c = d, !.hung = d.spin]
                      : d \in CacheSet(st1.c, relArg, entry) }

\* the callback of preloadDirectory run on the files order[i..]
RECURSIVE preloadFrom(_, _, _, _, _)
preloadFrom(st, rootArg, enableGzip, order, i) ==
    IF i > Len(order) \/ st.hung THEN { st }
    ELSE UNION { preloadFrom(st1, rootArg, enableGzip, order, i + 1)
                 : st1 \in LoadFile(st, rootArg, Rel(rootArg, order[i]),
                                    enableGzip) }

\* Cache.preloadDirectory(root, enableGzip, gzipLevel)
preloadDirectory(st, rootArg, enableGzip) ==
    preloadFrom(st, rootArg, enableGzip, WalkFiles(rootArg), 1)

\* New(router, EngineRoot, WithPreloadOnStart(), opts...) with the default
\* limits of the cache
InitPreload ==
    /\ config \in Configs
    /\ CacheIs(NewCache(DefaultMaxSize, DefaultMaxFiles))
    /\ clock = 1
    /\ req = NoCall
    /\ resp = NoCall
    /\ served = 0
    /\ CallerIdle
    /\ PathIdle
    /\ EncIdle
    /\ ConcIdle

\* the goroutine New starts: engine.cache.preloadDirectory(...)
PreloadOnStart ==
    /\ served = 0
    /\ DOMAIN entries = {}
    /\ \E st \in preloadDirectory(EngineRec, config.Root, config.EnableGzip) :
          /\ CacheBecomes(st.c)
          /\ hung' = st.hung
    /\ UNCHANGED <<clock, calls, pathVars, encVars, engineVars, concVars>>

\* StaticEngine.ReloadCache(): Clear, then preloadDirectory
ReloadCache ==
    /\ ~hung
    /\ served > 0
    /\ \E st \in preloadDirectory([EngineRec EXCEPT !.c = CacheClear(CacheRec)],
                                  config.Root, config.EnableGzip) :
          /\ CacheBecomes(st.c)
          /\ hung' = st.hung
    /\ UNCHANGED <<clock, calls, pathVars, encVars, engineVars, concVars>>

NextPreload ==
    \/ PreloadOnStart
    \/ ReloadCache
    \/ \E request \in RevalRequests : Revalidate(request)

SpecPreload == InitPreload /\ [][NextPreload]_vars

-----------------------------------------------------------------------------
(* middleware.go: the middleware that serves paths with a static extension *)

\* the size from which the middleware compresses what it serves and caches
MiddlewareGzipMinSize == 1024

\* strings.ToLower over the letters of the model's paths
ToLower(s) ==
    [i \in 1..Len(s) |->
        IF s[i] = "A" THEN "a" ELSE IF s[i] = "I" THEN "i" ELSE s[i]]

\* strings.HasSuffix(s, suffix)
HasSuffix(s, suffix) ==
    /\ Len(s) >= Len(suffix)
    /\ SubSeq(s, Len(s) - Len(suffix) + 1, Len(s)) = suffix

\* the extensions of the model's middlewares: the file names of the content
\* store end in them
defaultStaticExts == { <<"a">>, <<"i">> }

\* isStaticFile that accepts every path
isStaticFile_EveryPath(path, exts) == TRUE

\* isStaticFile(path, exts)
isStaticFile(path, exts) ==
    \E ext \in exts : HasSuffix(ToLower(path), ToLower(ext))

\* the StaticExtsMiddlewareConfig that StaticFileExtsMiddleware(EngineRoot,
\* opts...) builds from defaultStaticExtsMiddlewareConfig and its options
MiddlewareConfig(enableIndex, hideDotFiles, enableCache, useETag, onRequest) ==
    [Root |-> EngineRoot,
     Prefix |-> EmptyStr,
     StaticExts |-> defaultStaticExts,
     EnableCache |-> enableCache,
     EnableGzip |-> TRUE,
     UseETag |-> useETag,
     HideDotFiles |-> hideDotFiles,
     EnableIndex |-> enableIndex,
     IndexFile |-> IndexFile,
     OnRequest |-> onRequest]

\* generateMiddlewareETag(path, info)
generateMiddlewareETag(absPath, info) == <<info.Size, info.ModTime, absPath>>

\* getMiddlewareOSFile(cfg, path)
getMiddlewareOSFile(cfg, path) ==
    LET absPath == Join(cfg.Root, path) IN
    IF absPath \in DOMAIN FS
    THEN [data |-> RawBytes(FS[absPath]), modTime |-> FS[absPath].ModTime,
          etag |-> generateMiddlewareETag(absPath, FS[absPath]),
          err |-> FALSE, absPath |-> absPath]
    ELSE [data |-> NoBytes, modTime |-> ZeroTime, etag |-> EmptyStr,
          err |-> TRUE, absPath |-> absPath]

\* the engine of a middleware while its handler runs: lookups are the keys it
\* passed to Cache.Get
MiddlewareRec ==
    [c |-> CacheRec, clock |-> clock, hung |-> hung, reads |-> <<>>,
     lookups |-> <<>>]

\* getMiddlewareFile(cfg, cache, path): every result it may have; cache is
\* nil exactly when cfg.EnableCache is false
getMiddlewareFile(cfg, st, path) ==
    LET st0 == IF cfg.EnableCache
               THEN [st EXCEPT !.lookups = Append(st.lookups, path)]
               ELSE st
    IN IF cfg.EnableCache /\ path \in DOMAIN st.c.entries
       THEN LET entry == st.c.entries[path] IN
            { FileResult(EngineGet(st0, path), entry.Data, entry.ModTime,
                         entry.ETag, FALSE, FALSE) }
       ELSE LET f == getMiddlewareOSFile(cfg, path)
                st1 == [st0 EXCEPT !.reads = Append(st0.reads, f.absPath)]
                entry ==
                    [Data |-> f.data, ModTime |-> f.modTime,
                     Size |-> f.data.len, ETag |-> f.etag, LastAccess |-> 0,
                     Gzipped |->
                         IF cfg.EnableGzip /\ f.data.len >= MiddlewareGzipMinSize
                         THEN GzipCompress(f.data) ELSE NoBytes]
            IN IF f.err
               THEN { FileResult(st1, NoBytes, ZeroTime, EmptyStr, TRUE, FALSE) }
               ELSE IF ~cfg.EnableCache
               THEN { FileResult(st1, f.data, f.modTime, f.etag, FALSE, FALSE) }
               ELSE IF st1.hung
               THEN { FileResult(st1, f.data, f.modTime, f.etag, FALSE, TRUE) }
               ELSE { FileResult([st1 EXCEPT !.c = d, !.hung = d.spin],
                                 f.data, f.modTime, f.etag, FALSE, d.spin)
                      : d \in CacheSet(st1.c, path, entry) }

\* checkMiddlewareNotModified(c, modTime, etag, useETag)
checkMiddlewareNotModified(request, modTime, etag, useETag) ==
    \/ /\ useETag
       /\ request.ifNoneMatch # EmptyStr
       /\ request.ifNoneMatch = etag
    \/ /\ request.ifModifiedSince # EmptyStr
       /\ ~After(modTime, ParseHTTPTime(request.ifModifiedSince))

\* applyMiddlewareGzip(c, data, cfg): the body and its Content-Encoding
applyMiddlewareGzip(request, data, cfg) ==
    IF ~cfg.EnableGzip \/ data.len < MiddlewareGzipMinSize
        THEN [data |-> data, encoding |-> EmptyStr]
    ELSE IF ~containsEncoding(request.acceptEncoding, GzipName)
        THEN [data |-> data, encoding |-> EmptyStr]
    ELSE IF GzipCompress(data).len < data.len
        THEN [data |-> GzipCompress(data), encoding |-> GzipName]
    ELSE [data |-> data, encoding |-> EmptyStr]

(* gin.Context: the chain of handlers and the response writer *)

\* the handlers of the route: the middleware, then the handler of the route
ChainLen == 2

\* gin's abortIndex
AbortIndex == 63

\* the context gin hands to the middleware, handlers[0]: nothing written; seen
\* lists what the handler of the route found in the writer when it was called
NewContext ==
    [index |-> 0, status |-> NoStatus, body |-> NoBytes, header |-> NoHeader,
     seen |-> <<>>]

\* the body the handler of the route writes
RouteBody == [kind |-> "json", of |-> "route", len |-> 5, gz |-> 0]

\* the handler of the route: c.JSON(http.StatusOK, ...)
RouteHandler(c) ==
    [c EXCEPT !.seen = Append(c.seen, [status |-> c.status, body |-> c.body,
                                        header |-> c.header]),
              !.status = StatusOK,
              !.body = RouteBody]

\* the loop of Context.Next from the handler at c.index
RECURSIVE RunHandlers(_)
RunHandlers(c) ==
    IF c.index < ChainLen
    THEN RunHandlers([RouteHandler(c) EXCEPT !.index = c.index + 1])
    ELSE c

\* c.Next()
ContextNext(c) == RunHandlers([c EXCEPT !.index = c.index + 1])

\* c.Abort()
ContextAbort(c) == [c EXCEPT !.index = AbortIndex]

\* c.JSON(http.StatusForbidden, gin.H{"error": "forbidden"})
ContextForbidden(c) == [c EXCEPT !.status = StatusForbidden, !.body = ForbiddenBody]

\* what a request to the middleware came to: the engine it leaves, the
\* context when the middleware returned (mw) and when the chain ended (resp)
MiddlewareOutcome(st, c, cleanPath, blocked) ==
    LET end == IF blocked THEN c ELSE ContextNext(c) IN
    [st |-> st,
     resp |-> [status |-> end.status, body |-> end.body,
               header |-> end.header, cleanPath |-> cleanPath,
               reads |-> st.reads, lookups |-> st.lookups,
               seen |-> end.seen, blocked |-> blocked,
               mw |-> [status |-> c.status, body |-> c.body,
                       header |-> c.header, aborted |-> c.index >= AbortIndex]]]

\* the handler both constructors return, run on one request: every outcome.
\* The two closures differ in one statement: abortsNotModified is whether
\* c.Abort() follows a true checkMiddlewareNotModified
extsHandler(cfg, st, request, abortsNotModified) ==
    LET c == NewContext
        path0 == IF cfg.EnableIndex
                    /\ (request.path = <<Slash>> \/ request.path = EmptyStr)
                 THEN <<Slash>> \o cfg.IndexFile ELSE request.path
        path == TrimPrefix(TrimPrefix(path0, cfg.Prefix), <<Slash>>)
        trav == IsPathTraversal(cfg.Root, path)
        cleanPath == trav.path
    IN IF ~isStaticFile(path0, cfg.StaticExts)
           THEN { MiddlewareOutcome(st, ContextNext(c), EmptyStr, FALSE) }
       ELSE IF ~trav.ok
           THEN { MiddlewareOutcome(st, ContextAbort(ContextForbidden(c)),
                                    cleanPath, FALSE) }
       ELSE IF cfg.HideDotFiles /\ IsHiddenPath(cleanPath)
           THEN { MiddlewareOutcome(st, ContextAbort(ContextForbidden(c)),
                                    cleanPath, FALSE) }
       ELSE IF ~cfg.OnRequest.nil /\ cleanPath \in cfg.OnRequest.denied
           THEN { MiddlewareOutcome(st, ContextAbort(ContextForbidden(c)),
                                    cleanPath, FALSE) }
       ELSE {
           IF g.blocked THEN MiddlewareOutcome(g.st, c, cleanPath, TRUE)
           ELSE IF g.err
           THEN MiddlewareOutcome(g.st, ContextNext(c), cleanPath, FALSE)
           ELSE IF checkMiddlewareNotModified(request, g.modTime, g.etag,
                                              cfg.UseETag)
           THEN LET c1 == [c EXCEPT !.status = StatusNotModified]
                IN MiddlewareOutcome(g.st,
                       IF abortsNotModified THEN ContextAbort(c1) ELSE c1,
                       cleanPath, FALSE)
           ELSE LET z == applyMiddlewareGzip(request, g.data, cfg)
                    hdr == [LastModified |-> FormatHTTPTime(g.modTime),
                            ETag |-> IF cfg.UseETag THEN g.etag ELSE EmptyStr,
                            ContentEncoding |-> z.encoding,
                            Vary |-> z.encoding # EmptyStr,
                            ContentLength |-> z.data.len]
                IN MiddlewareOutcome(g.st,
                       ContextAbort([c EXCEPT !.status = StatusOK,
                                              !.body = z.data,
                                              !.header = hdr]),
                       cleanPath, FALSE)
           : g \in getMiddlewareFile(cfg, st, cleanPath) }

\* the handler StaticFileExtsMiddleware(root, opts...) returns, cfg being the
\* config its options built
StaticFileExtsMiddleware(cfg, st, request) ==
    extsHandler([cfg EXCEPT !.Root = Clean(cfg.Root)], st, request, TRUE)

\* the handler NewStaticFileExtsMiddlewareWithConfig(cfg) returns
NewStaticFileExtsMiddlewareWithConfig(cfg, st, request) ==
    LET cfg1 == [cfg EXCEPT
                    !.Root = IF cfg.Root # EmptyStr THEN Clean(cfg.Root)
                             ELSE cfg.Root,
                    !.StaticExts = IF cfg.StaticExts = {}
                                   THEN defaultStaticExts ELSE cfg.StaticExts,
                    !.EnableIndex = IF ~cfg.EnableIndex THEN TRUE
                                    ELSE cfg.EnableIndex,
                    !.IndexFile = IF cfg.IndexFile = EmptyStr THEN IndexFile
                                  ELSE cfg.IndexFile]
    IN extsHandler(cfg1, st, request, FALSE)

(* A router with the middleware in front of a route *)

\* the paths of the requests: the root, files of the content store, a name in
\* capitals, a name with no static extension, a static name with no file
MiddlewarePaths ==
    { <<Slash>>, <<Slash, "a">>, <<Slash, "A">>, <<Slash, Dot, "a">>,
      <<Slash, "s">>, <<Slash, "s", Slash, "a">> }

\* the conditional headers of the requests: none, the ETag of /r/a, a date at
\* which no file of the content store was younger
MiddlewareHeaders ==
    LET a == EngineRoot \o <<Slash, "a">>
    IN { [ifNoneMatch |-> EmptyStr, ifModifiedSince |-> EmptyStr,
          acceptEncoding |-> GzipName],
         [ifNoneMatch |-> generateMiddlewareETag(a, FS[a]),
          ifModifiedSince |-> EmptyStr, acceptEncoding |-> EmptyStr],
         [ifNoneMatch |-> EmptyStr, ifModifiedSince |-> <<6>>,
          acceptEncoding |-> EmptyStr] }

MiddlewareRequests ==
    { Request(path, hdr) : path \in MiddlewarePaths, hdr \in MiddlewareHeaders }

\* the configs of the model's middlewares and the constructor that got them
MiddlewareConfigs ==
    { [cfg |-> MiddlewareConfig(enableIndex, hideDotFiles, enableCache,
                                useETag, onRequest),
       withConfig |-> withConfig] :
        enableIndex \in BOOLEAN, hideDotFiles \in BOOLEAN,
        enableCache \in BOOLEAN, useETag \in BOOLEAN,
        onRequest \in { NilCallback, Callback({ <<Slash, "a">> }) },
        withConfig \in BOOLEAN }

\* router.Use(middleware) with the default limits of the cache
InitMiddleware ==
    /\ config \in MiddlewareConfigs
    /\ CacheIs(NewCache(DefaultMaxSize, DefaultMaxFiles))
    /\ clock = 1
    /\ req = NoCall
    /\ resp = NoCall
    /\ served = 0
    /\ CallerIdle
    /\ PathIdle
    /\ EncIdle
    /\ ConcIdle

\* the handler the router's constructor returned, run on one request
MiddlewareHandler(mc, st, request) ==
    IF mc.withConfig
    THEN NewStaticFileExtsMiddlewareWithConfig(mc.cfg, st, request)
    ELSE StaticFileExtsMiddleware(mc.cfg, st, request)

\* a GET request to the router; the exchange is logged
MiddlewareServe(request) ==
    /\ served < MaxRequests
    /\ \E out \in MiddlewareHandler(config, MiddlewareRec, request) :
          /\ EngineBecomes(out)
          /\ calls' = Append(calls, Exchange(request, out.resp))
    /\ req' = request
    /\ served' = served + 1
    /\ UNCHANGED <<config, pathVars, encVars, concVars>>

NextMiddleware == \E request \in MiddlewareRequests : MiddlewareServe(request)

SpecMiddleware == InitMiddleware /\ [][NextMiddleware]_vars

-----------------------------------------------------------------------------
(* The cache called by several goroutines: every access to the shared state *)
(* of Cache is a step of its own                                            *)

\* the goroutines
Goroutines == 1..NumGoroutines

\* the keys the goroutines use: two files of the engine's root
ConcKeys == { <<Slash, "a">>, <<Slash>> \o IndexFile }

\* the engine whose cache the goroutines share
ConcConfig == Config(FALSE, FALSE, TRUE, NilCallback)

\* the cacheEntry for the file key names: id stands for the pointer
ConcEntry(key, id) ==
    LET f == getOSFile(ConcConfig, key) IN
    [Size |-> f.data.len, LastAccess |-> 0, id |-> id, Data |-> f.data]

\* no cacheEntry
NoEntry == [Size |-> 0, LastAccess |-> 0, id |-> <<>>, Data |-> NoBytes]

\* a goroutine between two calls, with left calls to go and ret what its
\* last getFile returned
IdleProc(left, ret) ==
    [pc |-> "idle", op |-> "", key |-> NoKey, entry |-> NoEntry, old |-> 0,
     tmp |-> 0, call |-> 0, snap |-> {}, visited |-> {}, left |-> left,
     ret |-> ret]

\* goroutine g becomes p
Becomes(g, p) == procs' = [procs EXCEPT ![g] = p]

\* goroutine g is at label pc
At(g, pc) == procs[g].pc = pc

\* every call has returned
AllReturned == \A g \in Goroutines : At(g, "idle")

\* Cache.Set returns: getFile goes on to return data
SetReturns(p) ==
    IF p.op = "getFile" THEN IdleProc(p.left, p.entry.Data)
    ELSE IdleProc(p.left, p.ret)

(* Cache.Set(key, entry) *)

\* c.mu.Lock() of evictIfNeeded and of Clear
Lock(g) ==
    /\ At(g, "lock")
    /\ mu = 0
    /\ mu' = g
    /\ Becomes(g, IF procs[g].op = "Clear"
                  THEN [procs[g] EXCEPT !.pc = "range",
                                        !.snap = DOMAIN entries]
                  ELSE [procs[g] EXCEPT !.pc = "files"])
    /\ UNCHANGED <<cacheVars, reads, compresses, restVars>>

\* one test of the first loop of evictIfNeeded, and its body evictOldest;
\* the Range of evictOldest finds no LastAccess below -1, so that it changes
\* nothing and its steps need not be told apart
EvictFiles(g) ==
    /\ At(g, "files")
    /\ IF fileCount >= maxFiles /\ fileCount > 0
       THEN /\ \E r \in evictOldest(CacheRec) : CacheBecomes(r)
            /\ UNCHANGED procs
       ELSE /\ Becomes(g, [procs[g] EXCEPT !.pc = "size"])
            /\ UNCHANGED <<entries, totalSize, fileCount, evictCounter,
                           maxSize, maxFiles, onEvictCalls>>
    /\ UNCHANGED <<clock, mu, reads, compresses, restVars>>

\* one test of the second loop of evictIfNeeded, and its body; leaving the
\* loop runs the deferred c.mu.Unlock()
EvictSize(g) ==
    /\ At(g, "size")
    /\ LET after == IF procs[g].call = 1 THEN "check1" ELSE "check2" IN
       IF totalSize + procs[g].entry.Size > maxSize /\ totalSize > 0
       THEN \E r \in evictOldest(CacheRec) :
              /\ CacheBecomes(r)
              /\ IF r.ret
                 THEN UNCHANGED <<procs, mu>>
                 ELSE /\ Becomes(g, [procs[g] EXCEPT !.pc = after])
                      /\ mu' = 0
       ELSE /\ Becomes(g, [procs[g] EXCEPT !.pc = after])
            /\ mu' = 0
            /\ UNCHANGED <<entries, totalSize, fileCount, evictCounter,
                           maxSize, maxFiles, onEvictCalls>>
    /\ UNCHANGED <<clock, reads, compresses, restVars>>

\* if c.totalSize+entry.Size > c.maxSize, after the first and after the
\* second evictIfNeeded
SetCheck(g) ==
    /\ At(g, "check1") \/ At(g, "check2")
    /\ Becomes(g, IF totalSize + procs[g].entry.Size > maxSize
                  THEN IF At(g, "check1")
                       THEN [procs[g] EXCEPT !.pc = "lock", !.call = 2]
                       ELSE SetReturns(procs[g])
                  ELSE [procs[g] EXCEPT !.pc = "store"])
    /\ UNCHANGED <<cacheVars, mu, reads, compresses, restVars>>

\* c.entries.LoadOrStore(key, entry)
SetLoadOrStore(g) ==
    /\ At(g, "store")
    /\ LET p == procs[g] IN
       IF p.key \in DOMAIN entries
       THEN /\ Becomes(g, [p EXCEPT !.pc = "loadTotal",
                                    !.old = entries[p.key].Size])
            /\ UNCHANGED entries
       ELSE /\ entries' = MapStore(entries, p.key, p.entry)
            /\ Becomes(g, [p EXCEPT !.pc = "addSize"])
    /\ UNCHANGED <<totalSize, fileCount, evictCounter, maxSize, maxFiles,
                   onEvictCalls, clock, mu, reads, compresses, restVars>>

\* atomic.LoadInt64(&c.totalSize)
SetLoadTotal(g) ==
    /\ At(g, "loadTotal")
    /\ Becomes(g, [procs[g] EXCEPT !.pc = "storeTotal", !.tmp = totalSize])
    /\ UNCHANGED <<cacheVars, mu, reads, compresses, restVars>>

\* atomic.StoreInt64(&c.totalSize, ... - oldCe.Size)
SetStoreTotal(g) ==
    /\ At(g, "storeTotal")
    /\ totalSize' = procs[g].tmp - procs[g].old
    /\ Becomes(g, [procs[g] EXCEPT !.pc = "addSize", !.tmp = 0, !.old = 0])
    /\ UNCHANGED <<entries, fileCount, evictCounter, maxSize, maxFiles,
                   onEvictCalls, clock, mu, reads, compresses, restVars>>

\* atomic.AddInt64(&c.totalSize, entry.Size)
SetAddSize(g) ==
    /\ At(g, "addSize")
    /\ totalSize' = totalSize + procs[g].entry.Size
    /\ Becomes(g, [procs[g] EXCEPT !.pc = "addCount"])
    /\ UNCHANGED <<entries, fileCount, evictCounter, maxSize, maxFiles,
                   onEvictCalls, clock, mu, reads, compresses, restVars>>

\* atomic.AddInt32(&c.fileCount, 1), and Set returns
SetAddCount(g) ==
    /\ At(g, "addCount")
    /\ fileCount' = fileCount + 1
    /\ Becomes(g, SetReturns(procs[g]))
    /\ UNCHANGED <<entries, totalSize, evictCounter, maxSize, maxFiles,
                   onEvictCalls, clock, mu, reads, compresses, restVars>>

(* Cache.Get(key) *)

\* c.entries.Load(key): on a miss Get returns, and getFile goes on to read
\* the file
GetLoad(g) ==
    /\ At(g, "get")
    /\ LET p == procs[g] IN
       Becomes(g, IF p.key \in DOMAIN entries
                  THEN [p EXCEPT !.pc = "touch", !.entry = entries[p.key]]
                  ELSE IF p.op = "getFile" THEN [p EXCEPT !.pc = "read"]
                  ELSE IdleProc(p.left, p.ret))
    /\ UNCHANGED <<cacheVars, mu, reads, compresses, restVars>>

\* atomic.StoreInt64(&ce.LastAccess, time.Now().UnixNano()) on the entry
\* that was loaded, which the map may hold no longer; Get returns it, and
\* getFile returns its Data
GetTouch(g) ==
    /\ At(g, "touch")
    /\ clock' = clock + 1
    /\ LET p == procs[g] IN
       /\ entries' = IF /\ p.key \in DOMAIN entries
                        /\ entries[p.key].id = p.entry.id
                     THEN [entries EXCEPT ![p.key].LastAccess = clock']
                     ELSE entries
       /\ Becomes(g, IdleProc(p.left, IF p.op = "getFile" THEN p.entry.Data
                                      ELSE p.ret))
    /\ UNCHANGED <<totalSize, fileCount, evictCounter, maxSize, maxFiles,
                   onEvictCalls, mu, reads, compresses, restVars>>

(* Cache.Delete(key) *)

\* c.entries.Load(key)
DeleteLoad(g) ==
    /\ At(g, "delete")
    /\ LET p == procs[g] IN
       Becomes(g, IF p.key \in DOMAIN entries
                  THEN [p EXCEPT !.pc = "remove", !.old = entries[p.key].Size]
                  ELSE IdleProc(p.left, p.ret))
    /\ UNCHANGED <<cacheVars, mu, reads, compresses, restVars>>

\* c.entries.Delete(key)
DeleteRemove(g) ==
    /\ At(g, "remove")
    /\ entries' = MapDelete(entries, procs[g].key)
    /\ Becomes(g, [procs[g] EXCEPT !.pc = "subSize"])
    /\ UNCHANGED <<totalSize, fileCount, evictCounter, maxSize, maxFiles,
                   onEvictCalls, clock, mu, reads, compresses, restVars>>

\* atomic.AddInt64(&c.totalSize, -ce.Size)
DeleteSubSize(g) ==
    /\ At(g, "subSize")
    /\ totalSize' = totalSize - procs[g].old
    /\ Becomes(g, [procs[g] EXCEPT !.pc = "subCount"])
    /\ UNCHANGED <<entries, fileCount, evictCounter, maxSize, maxFiles,
                   onEvictCalls, clock, mu, reads, compresses, restVars>>

\* atomic.AddInt32(&c.fileCount, -1), c.onEvict(key), and Delete returns
DeleteSubCount(g) ==
    /\ At(g, "subCount")
    /\ fileCount' = fileCount - 1
    /\ onEvictCalls' = Append(onEvictCalls, procs[g].key)
    /\ Becomes(g, IdleProc(procs[g].left, procs[g].ret))
    /\ UNCHANGED <<entries, totalSize, evictCounter, maxSize, maxFiles,
                   clock, mu, reads, compresses, restVars>>

(* Cache.Clear() *)

\* the Range callback of Clear on one key: sync.Map.Range visits no key
\* twice, and may visit a key stored while it runs
ClearVisit(g, key) ==
    /\ At(g, "range")
    /\ key \in DOMAIN entries
    /\ key \notin procs[g].visited
    /\ entries' = MapDelete(entries, key)
    /\ Becomes(g, [procs[g] EXCEPT !.visited = procs[g].visited \cup {key}])
    /\ UNCHANGED <<totalSize, fileCount, evictCounter, maxSize, maxFiles,
                   onEvictCalls, clock, mu, reads, compresses, restVars>>

\* Range returns, having visited the keys that were held all the while; then
\* c.totalSize = 0
ClearZeroSize(g) ==
    /\ At(g, "range")
    /\ (procs[g].snap \cap DOMAIN entries) \subseteq procs[g].visited
    /\ totalSize' = 0
    /\ Becomes(g, [procs[g] EXCEPT !.pc = "zeroCount", !.snap = {},
                                   !.visited = {}])
    /\ UNCHANGED <<entries, fileCount, evictCounter, maxSize, maxFiles,
                   onEvictCalls, clock, mu, reads, compresses, restVars>>

\* c.fileCount = 0, the deferred c.mu.Unlock(), and Clear returns
ClearZeroCount(g) ==
    /\ At(g, "zeroCount")
    /\ fileCount' = 0
    /\ mu' = 0
    /\ Becomes(g, IdleProc(procs[g].left, procs[g].ret))
    /\ UNCHANGED <<entries, totalSize, evictCounter, maxSize, maxFiles,
                   onEvictCalls, clock, reads, compresses, restVars>>

(* the calls *)

\* goroutine g calls op on key
Starts(g, op, key, pc) ==
    /\ At(g, "idle")
    /\ procs[g].left > 0
    /\ Becomes(g, [IdleProc(procs[g].left - 1, procs[g].ret) EXCEPT
                     !.pc = pc, !.op = op, !.key = key])
    /\ UNCHANGED <<cacheVars, mu, reads, compresses, restVars>>

\* go cache.Set(key, entry) with a fresh entry
StartSet(g, key) ==
    /\ At(g, "idle")
    /\ procs[g].left > 0
    /\ Becomes(g, [IdleProc(procs[g].left - 1, procs[g].ret) EXCEPT
                     !.pc = "lock", !.op = "Set", !.key = key, !.call = 1,
                     !.entry = ConcEntry(key, <<g, procs[g].left>>)])
    /\ UNCHANGED <<cacheVars, mu, reads, compresses, restVars>>

\* go cache.Get(key)
StartGet(g, key) == Starts(g, "Get", key, "get")

\* go cache.Delete(key)
StartDelete(g, key) == Starts(g, "Delete", key, "delete")

\* go cache.Clear()
StartClear(g) == Starts(g, "Clear", NoKey, "lock")

\* NewCache(CfgMaxSize, CfgMaxFiles, onEvict), shared by the goroutines
InitConc ==
    /\ CacheIs(NewCache(CfgMaxSize, CfgMaxFiles))
    /\ clock = 1
    /\ procs = [g \in Goroutines |-> IdleProc(MaxOps, NoBytes)]
    /\ mu = 0
    /\ reads = [key \in ConcKeys |-> 0]
    /\ compresses = [key \in ConcKeys |-> 0]
    /\ CallerIdle
    /\ PathIdle
    /\ EncIdle
    /\ EngineIdle

\* a step of Set, shared with getFile
SetStep(g) ==
    \/ Lock(g)
    \/ EvictFiles(g)
    \/ EvictSize(g)
    \/ SetCheck(g)
    \/ SetLoadOrStore(g)
    \/ SetLoadTotal(g)
    \/ SetStoreTotal(g)
    \/ SetAddSize(g)
    \/ SetAddCount(g)

\* a step of Get, shared with getFile
GetStep(g) == GetLoad(g) \/ GetTouch(g)

DeleteStep(g) ==
    \/ DeleteLoad(g)
    \/ DeleteRemove(g)
    \/ DeleteSubSize(g)
    \/ DeleteSubCount(g)

ClearStep(g) ==
    \/ \E key \in ConcKeys : ClearVisit(g, key)
    \/ ClearZeroSize(g)
    \/ ClearZeroCount(g)

NextConc ==
    \E g \in Goroutines :
        \/ \E key \in ConcKeys : StartSet(g, key)
        \/ \E key \in ConcKeys : StartGet(g, key)
        \/ \E key \in ConcKeys : StartDelete(g, key)
        \/ StartClear(g)
        \/ SetStep(g)
        \/ GetStep(g)
        \/ DeleteStep(g)
        \/ ClearStep(g)

SpecConc == InitConc /\ [][NextConc]_vars

-----------------------------------------------------------------------------
(* Concurrent requests for one file: getFile called by several goroutines *)

\* the file the requests are for
LoadKey == <<Slash, "a">>

\* go e.getFile(key)
StartGetFile(g, key) == Starts(g, "getFile", key, "get")

\* getFile after the cache miss: getOSFile reads the file, the entry is
\* built and compressed, and e.cache.Set is called
ReadFile(g) ==
    /\ At(g, "read")
    /\ LET p == procs[g]
           f == getOSFile(ConcConfig, p.key)
           entry == FileEntry(ConcConfig, f)
       IN /\ reads' = [reads EXCEPT ![p.key] = reads[p.key] + 1]
          /\ IF f.err
             THEN /\ Becomes(g, IdleProc(p.left, NoBytes))
                  /\ UNCHANGED compresses
             ELSE /\ Becomes(g, [p EXCEPT !.pc = "lock", !.call = 1,
                                   !.entry = ConcEntry(p.key, <<g, p.left + 1>>)])
                  /\ compresses' =
                       IF entry.Gzipped # NoBytes
                       THEN [compresses EXCEPT ![p.key] = compresses[p.key] + 1]
                       ELSE compresses
    /\ UNCHANGED <<cacheVars, mu, restVars>>

NextLoad ==
    \E g \in Goroutines :
        \/ StartGetFile(g, LoadKey)
        \/ GetStep(g)
        \/ ReadFile(g)
        \/ SetStep(g)

SpecLoad == InitConc /\ [][NextLoad]_vars

-----------------------------------------------------------------------------
(* the claims about the cache under one caller *)

\* the sum of Size over the entries the map holds
RECURSIVE SumSizes(_)
SumSizes(ents) ==
    IF DOMAIN ents = {} THEN 0
    ELSE LET k == CHOOSE x \in DOMAIN ents : TRUE
         IN ents[k].Size + SumSizes(MapDelete(ents, k))

OnlySets == \A i \in 1..Len(calls) : calls[i].op = "Set"

DistinctKeys == \A i, j \in 1..Len(calls) : i # j => calls[i].key # calls[j].key

\* the sum of the sizes handed to Set so far
RECURSIVE CallSizes(_)
CallSizes(cs) == IF cs = <<>> THEN 0 ELSE Head(cs).size + CallSizes(Tail(cs))

\* C1: after any sequence of Set calls (repeated keys allowed) the sizes of
\* the entries held in the map sum to at most maxSize and the map holds at
\* most maxFiles keys
SetKeepsBounds ==
    (OnlySets /\ ~hung) =>
        /\ SumSizes(entries) <= maxSize
        /\ Cardinality(DOMAIN entries) <= maxFiles

\* C2: with maxFiles = N and room for every entry, after N+1 Sets of distinct
\* keys and nothing else the last Set has returned, the first-inserted key is
\* gone, the other N keys are cached and FileCount() <= N
EvictsFirstInserted ==
    (/\ Len(calls) = maxFiles + 1
     /\ OnlySets
     /\ DistinctKeys
     /\ CallSizes(calls) <= maxSize) =>
        /\ ~hung
        /\ calls[1].key \notin DOMAIN entries
        /\ \A i \in 2..Len(calls) : calls[i].key \in DOMAIN entries
        /\ FileCount <= maxFiles

\* the calls are: N = maxFiles >= 2 Sets of distinct keys, a Get of the first
\* of them, and the Set of one more key
TouchedFirstThenSet ==
    /\ maxFiles >= 2
    /\ Len(calls) = maxFiles + 2
    /\ \A i \in 1..maxFiles : calls[i].op = "Set"
    /\ calls[maxFiles + 1].op = "Get"
    /\ calls[maxFiles + 1].key = calls[1].key
    /\ calls[maxFiles + 2].op = "Set"
    /\ \A i, j \in (1..maxFiles) \cup {maxFiles + 2} :
           i # j => calls[i].key # calls[j].key
    /\ CallSizes(calls) <= maxSize

\* C3: when Get touched the first-inserted key before the (N+1)-th key is
\* Set, that Set leaves the first-inserted key cached and evicts exactly one
\* key, one of the untouched ones
GetProtectsFromEviction ==
    TouchedFirstThenSet =>
        /\ ~hung
        /\ calls[1].key \in DOMAIN entries
        /\ calls[maxFiles + 2].key \in DOMAIN entries
        /\ Cardinality({ i \in 2..maxFiles : calls[i].key \notin DOMAIN entries }) = 1

\* C4: a Set(k, e) with e.Size <= maxSize and totalSize + e.Size > maxSize
\* evicts until e fits and stores it: afterwards k is cached and the total
\* size is at most maxSize
SetEvictsToFit ==
    [][ (/\ Len(calls') = Len(calls) + 1
         /\ calls'[Len(calls')].op = "Set"
         /\ calls'[Len(calls')].size <= maxSize
         /\ totalSize + calls'[Len(calls')].size > maxSize) =>
            /\ ~hung'
            /\ calls'[Len(calls')].key \in DOMAIN entries'
            /\ totalSize' <= maxSize ]_vars

\* C5: FileCount() is the number of keys in the map and Size() the sum of
\* Size over the entries in the map
AccountingExact ==
    ~hung =>
        /\ FileCount = Cardinality(DOMAIN entries)
        /\ Size = SumSizes(entries)

-----------------------------------------------------------------------------
(* C8 *)

\* C8: whenever IsPathTraversal(root, relPath) returns (true, p), the path
\* filepath.Join(root, p) is root itself or lies below root
TraversalSafe ==
    (travOut # NoCall /\ travOut[1].ok) =>
        Inside(Join(root, travOut[1].path), Clean(root))

\* an accepted request path that held ".." segments
TraversalSafeWitness ==
    /\ travOut # NoCall
    /\ travOut[1].ok
    /\ root = <<Slash, "a">>
    /\ Contains(relPath, <<Dot, Dot, Slash>>)
    /\ Join(root, travOut[1].path) # Clean(root)

-----------------------------------------------------------------------------
(* C6, C7: the cache under concurrent calls *)

\* C6: once every concurrent Set, Get, Delete and Clear has returned,
\* FileCount() is the number of keys in the map and Size() the sum of their
\* sizes, neither is negative, and both are within maxFiles and maxSize
UncorruptedWhenReturned ==
    (AllReturned /\ mu = 0) =>
        /\ FileCount = Cardinality(DOMAIN entries)
        /\ Size = SumSizes(entries)
        /\ FileCount >= 0
        /\ Size >= 0
        /\ FileCount <= maxFiles
        /\ Size <= maxSize

\* C7: concurrent getFile calls for one uncached key read the file once and
\* compress it at most once
LoadedOnce ==
    /\ reads[LoadKey] <= 1
    /\ compresses[LoadKey] <= 1

-----------------------------------------------------------------------------
(* C9, C10: the checks of the handlers *)

\* the relative path the handlers hand to IsPathTraversal for the request
\* path param
RelOf(param) == TrimPrefix(param, <<Slash>>)

\* the depth below the root after the segments segs[i..], starting at depth;
\* -1 once a ".." has climbed above the root
RECURSIVE DepthAfter(_, _, _)
DepthAfter(segs, i, depth) ==
    IF i > Len(segs) THEN depth
    ELSE IF segs[i] = EmptyStr \/ segs[i] = <<Dot>>
        THEN DepthAfter(segs, i + 1, depth)
    ELSE IF segs[i] = <<Dot, Dot>>
        THEN IF depth = 0 THEN -1 ELSE DepthAfter(segs, i + 1, depth - 1)
    ELSE DepthAfter(segs, i + 1, depth + 1)

\* the ".." segments of rel climb above the root
ClimbsAboveRoot(rel) == DepthAfter(SplitOn(rel, Slash), 1, 0) < 0

\* rel is an absolute path
IsAbsolute(rel) == HasPrefix(rel, <<Slash>>)

\* path has a segment that begins with '.'
HasDotSegment(path) ==
    \E i \in 1..Len(SplitOn(path, Slash)) :
        LET seg == SplitOn(path, Slash)[i]
        IN Len(seg) > 0 /\ seg[1] = Dot /\ seg # <<Dot>> /\ seg # <<Dot, Dot>>

\* C9: a request whose path climbs above the root with ".." or is absolute
\* is refused by IsPathTraversal with (false, "") and answered 403 without
\* any file being looked up
TraversalForbidden ==
    (/\ served > 0
     /\ ClimbsAboveRoot(RelOf(req.path)) \/ IsAbsolute(RelOf(req.path))) =>
        /\ IsPathTraversal(config.Root, RelOf(req.path))
               = [ok |-> FALSE, path |-> EmptyStr]
        /\ resp.status = StatusForbidden
        /\ resp.reads = <<>>

\* C10: with HideDotFiles, a request whose resolved path has a segment that
\* begins with '.' is answered 403, and IsHiddenPath is true of exactly the
\* resolved paths with such a segment
HiddenForbidden ==
    (served > 0 /\ config.HideDotFiles) =>
        LET trav == IsPathTraversal(config.Root, RelOf(req.path)) IN
        trav.ok =>
            /\ HasDotSegment(trav.path) => resp.status = StatusForbidden
            /\ IsHiddenPath(trav.path) <=> HasDotSegment(trav.path)

-----------------------------------------------------------------------------
(* C11: the admission callback *)

\* the last request was denied by the OnRequest callback of the engine
DeniedByCallback ==
    /\ served > 0
    /\ ~config.OnRequest.nil
    /\ IsPathTraversal(config.Root, RelOf(req.path)).ok
    /\ IsPathTraversal(config.Root, RelOf(req.path)).path \in config.OnRequest.denied

\* C11: when an OnRequest callback is configured and returns false for the
\* resolved path of the request, the response is 403
AdmissionForbidden == DeniedByCallback => resp.status = StatusForbidden

-----------------------------------------------------------------------------
(* C12: a refused request leaves the engine as it was *)

\* C12: a request answered 403 reads no file and leaves the keys of the
\* cache, its totals and the last access of every entry as they were
ForbiddenChangesNothing ==
    [][(served' = served + 1 /\ resp'.status = StatusForbidden) =>
          /\ resp'.reads = <<>>
          /\ entries' = entries
          /\ totalSize' = totalSize
          /\ fileCount' = fileCount
          /\ evictCounter' = evictCounter
          /\ onEvictCalls' = onEvictCalls]_vars

\* a request was refused by an engine whose cache holds an entry that was
\* touched
ForbiddenChangesNothingWitness ==
    /\ served > 1
    /\ resp.status = StatusForbidden
    /\ \E key \in DOMAIN entries : entries[key].LastAccess > 0

-----------------------------------------------------------------------------
(* C13: the fallback to the index document *)

\* the last request carried no conditional header, passed the checks of the
\* handlers, and names no file of the content store
AbsentRequested ==
    LET trav == IsPathTraversal(config.Root, RelOf(req.path)) IN
    /\ served > 0
    /\ req.path # <<Slash>>
    /\ req.ifNoneMatch = EmptyStr
    /\ req.ifModifiedSince = EmptyStr
    /\ trav.ok
    /\ ~(config.HideDotFiles /\ ~RoutedToSPA /\ IsHiddenPath(trav.path))
    /\ ~(~config.OnRequest.nil /\ trav.path \in config.OnRequest.denied)
    /\ Join(config.Root, trav.path) \notin DOMAIN FS

\* C13: a request for an absent file is answered 200 with the bytes of the
\* index document when the SPA fallback is enabled and the index document
\* exists, and 404 otherwise
FallbackToIndex ==
    AbsentRequested =>
        IF config.EnableSPA /\ config.SPAFallback
              /\ Join(config.Root, config.IndexFile) \in DOMAIN FS
        THEN /\ resp.status = StatusOK
             /\ resp.body.of = FS[Join(config.Root, config.IndexFile)].Name
        ELSE resp.status = StatusNotFound


\* C14: with ETag enabled, a request carrying in If-None-Match the ETag an
\* earlier 200 response returned for the same path is answered 304 with an
\* empty body, also after the cache was cleared and the file loaded again
ETagRevalidates ==
    \A i \in 1..Len(calls) : \A j \in 1..(i - 1) :
        (/\ calls[j].resp.status = StatusOK
         /\ calls[j].resp.header.ETag # EmptyStr
         /\ calls[i].req.path = calls[j].req.path
         /\ calls[i].req.ifNoneMatch = calls[j].resp.header.ETag)
        => /\ calls[i].resp.status = StatusNotModified
           /\ calls[i].resp.body = NoBytes

-----------------------------------------------------------------------------
(* C15: If-Modified-Since *)

\* request passes the checks of the handler of an engine configured by cfg
\* and names a file of the content store
PresentRequest(cfg, request) ==
    LET trav == IsPathTraversal(cfg.Root, RelOf(request.path)) IN
    /\ request.path # <<Slash>>
    /\ trav.ok
    /\ ~(/\ cfg.HideDotFiles
          /\ ~(cfg.EnableSPA /\ cfg.SPAFallback)
          /\ IsHiddenPath(trav.path))
    /\ ~(~cfg.OnRequest.nil /\ trav.path \in cfg.OnRequest.denied)
    /\ Join(cfg.Root, trav.path) \in DOMAIN FS

\* the file request names
FileOf(cfg, request) ==
    FS[Join(cfg.Root, IsPathTraversal(cfg.Root, RelOf(request.path)).path)]

\* the last request passed the checks of the handlers and names a file of
\* the content store
PresentRequested == served > 0 /\ PresentRequest(config, req)

\* the file the last request names
RequestedFile == FileOf(config, req)

\* C15: a request whose If-Modified-Since parses to a time not before the
\* modification time of the file, compared by the second, is answered 304,
\* whatever the part of the modification time below the second
ModifiedSinceHonoured ==
    (/\ PresentRequested
     /\ req.ifModifiedSince # EmptyStr
     /\ ParseHTTPTime(req.ifModifiedSince)[1] >= RequestedFile.ModTime[1])
    => resp.status = StatusNotModified

-----------------------------------------------------------------------------
(* C16: containsEncoding *)

\* the weight q is greater than 0: one of its digits is not 0
PositiveWeight(q) == \E i \in 1..Len(q) : q[i] \in { "1", "5" }

\* the tokens of header: its parts between commas without their spaces
TokensOf(header) ==
    LET parts == SplitOn(header, Comma)
    IN { SelectSeq(parts[i], LAMBDA ch : ch # Space) : i \in 1..Len(parts) }

\* enc is one of the tokens of header, without weight or with a weight
\* greater than 0
Accepts(header, enc) ==
    \E token \in TokensOf(header) :
        \/ token = enc
        \/ /\ HasPrefix(token, enc \o <<";", "q", "=">>)
           /\ PositiveWeight(SubSeq(token, Len(enc) + 4, Len(token)))

\* C16: containsEncoding(header, enc) is true exactly when enc is one of the
\* comma-separated tokens of header without a q parameter or with q greater
\* than 0, and false when it is absent, the header is empty or q is 0
ContainsEncodingExact ==
    containsOut # NoCall =>
        containsOut[1] = Accepts(acceptEnc, GzipName)

-----------------------------------------------------------------------------
(* C17: gzip responses *)

\* the last request accepts gzip, carries no conditional header and names a
\* file of at least the compression threshold whose gzip form is shorter
GzipRequested ==
    /\ PresentRequested
    /\ config.EnableGzip
    /\ req.acceptEncoding = GzipName
    /\ req.ifNoneMatch = EmptyStr
    /\ req.ifModifiedSince = EmptyStr
    /\ RequestedFile.Size >= config.CompressMinSize
    /\ RequestedFile.GzSize < RequestedFile.Size

\* C17: with gzip enabled, a request with Accept-Encoding: gzip for a
\* compressible file of at least the compression threshold is answered 200
\* with Content-Encoding: gzip, Vary: Accept-Encoding and a body shorter than
\* the file
GzipServed ==
    GzipRequested =>
        /\ resp.status = StatusOK
        /\ resp.header.ContentEncoding = GzipName
        /\ resp.header.Vary
        /\ resp.body.len < RequestedFile.Size

-----------------------------------------------------------------------------
(* C18: the headers of a response agree with its body *)

\* the body and the headers of a 200 response are those of the file at
\* absPath, raw or in its gzip form
Describes(response, absPath) ==
    LET file == FS[absPath] IN
    /\ response.body.of = file.Name
    /\ response.header.LastModified = FormatHTTPTime(file.ModTime)
    /\ response.header.ETag = generateETag(absPath, file)
    /\ \/ /\ response.header.ContentEncoding = GzipName
          /\ response.body = GzipCompress(RawBytes(file))
       \/ /\ response.header.ContentEncoding = EmptyStr
          /\ response.body = RawBytes(file)

\* C18: a 200 response carries Content-Encoding: gzip exactly when its body
\* is the gzip form of the file its ETag and Last-Modified describe, and has
\* the raw bytes of that file otherwise; Content-Length is the length of the
\* body; a 304 response has no Content-Encoding and no body
HeadersAgreeWithBody ==
    served > 0 =>
        /\ resp.status = StatusOK =>
              /\ \E absPath \in DOMAIN FS : Describes(resp, absPath)
              /\ resp.header.ContentLength = resp.body.len
        /\ resp.status = StatusNotModified =>
              /\ resp.header.ContentEncoding = EmptyStr
              /\ resp.body = NoBytes

\* a request accepting gzip was answered 200 from a cache entry that holds
\* the gzip form of the file
HeadersAgreeWithBodyWitness ==
    /\ served > 1
    /\ resp.status = StatusOK
    /\ GzipRequested
    /\ resp.reads = <<>>
    /\ resp.cleanPath \in DOMAIN entries
    /\ entries[resp.cleanPath].Gzipped # NoBytes

-----------------------------------------------------------------------------
(* C19: a file larger than the cache *)

\* request carries no If-None-Match and names a file larger than limit, and
\* cfg enables the cache
OversizedRequest(cfg, request, limit) ==
    /\ PresentRequest(cfg, request)
    /\ cfg.EnableCache
    /\ request.ifNoneMatch = EmptyStr
    /\ FileOf(cfg, request).Size > limit

\* C19: when Set is called with an entry larger than maxSize the key is not
\* cached afterwards, the totals and the other entries are as before, and
\* the request that loaded the file is answered 200 with its bytes
OversizedServedUncached ==
    [][(served' = served + 1 /\ OversizedRequest(config, req', maxSize)) =>
          /\ entries' = entries
          /\ totalSize' = totalSize
          /\ fileCount' = fileCount
          /\ resp'.cleanPath \notin DOMAIN entries'
          /\ resp'.status = StatusOK
          /\ resp'.body = RawBytes(FileOf(config, req'))]_vars

-----------------------------------------------------------------------------
(* C22: Clear *)

\* C22: after Clear returned, and until the next Set, the cache holds no
\* keys, Size() and FileCount() are 0 and every Get misses
ClearEmpties ==
    \A i \in 1..Len(calls) :
        (/\ calls[i].op = "Clear"
         /\ \A j \in (i + 1)..Len(calls) : calls[j].op # "Set")
        => /\ DOMAIN entries = {}
           /\ Size = 0
           /\ FileCount = 0
           /\ \A j \in (i + 1)..Len(calls) :
                 calls[j].op = "Get" => ~calls[j].ret

\* a Set stored a key, Clear was called, and the Get of that key followed
ClearEmptiesWitness ==
    \E i \in 2..(Len(calls) - 1) :
        /\ calls[i - 1].op = "Set"
        /\ calls[i - 1].ret
        /\ calls[i].op = "Clear"
        /\ calls[i + 1].op = "Get"
        /\ calls[i + 1].key = calls[i - 1].key
        /\ i + 1 = Len(calls)

-----------------------------------------------------------------------------
(* C23: Set returns *)

\* C23: every call of Set returns: the loops of evictIfNeeded end, so no Set
\* spins holding the mutex of the cache
SetTerminates ==
    /\ ~hung
    /\ \A i \in 1..Len(calls) : calls[i].op = "Set" => calls[i].ret

-----------------------------------------------------------------------------
(* C24: Set stores the entry it was given *)

\* C24: after Set(k, e) returned for an entry that fits within both bounds,
\* the cache holds e under k, also when k was cached with another entry
SetReplaces ==
    [][\A key \in Keys, size \in EntrySizes :
          (/\ calls' = Append(calls, Call("Set", key, size, TRUE))
           /\ totalSize + size <= maxSize
           /\ fileCount < maxFiles)
          => /\ key \in DOMAIN entries'
             /\ entries'[key] = CacheEntry(size, Len(calls) + 1)]_vars

-----------------------------------------------------------------------------
(* C25: the onEvict callback *)

\* the step is a call of Set
IsSetStep ==
    /\ Len(calls') = Len(calls) + 1
    /\ calls'[Len(calls')].op = "Set"

-----------------------------------------------------------------------------
(* C27: Get *)

\* C27: Get on a hit sets LastAccess of the entry it returns to the current
\* time and changes nothing else; Get on a miss returns (nil, false) and
\* changes nothing
GetTouchesOnly ==
    [][\A key \in Keys :
          (/\ Len(calls') = Len(calls) + 1
           /\ calls'[Len(calls')].op = "Get"
           /\ calls'[Len(calls')].key = key)
          => /\ calls'[Len(calls')].ret = (key \in DOMAIN entries)
             /\ DOMAIN entries' = DOMAIN entries
             /\ \A k \in DOMAIN entries :
                   entries'[k] = IF k = key
                                 THEN [entries[k] EXCEPT !.LastAccess = clock']
                                 ELSE entries[k]
             /\ clock' > clock
             /\ totalSize' = totalSize
             /\ fileCount' = fileCount
             /\ evictCounter' = evictCounter
             /\ onEvictCalls' = onEvictCalls]_vars

\* the last call was a Get that hit one of two cached keys, and an earlier
\* Get missed
GetTouchesOnlyWitness ==
    /\ Len(calls) > 0
    /\ calls[Len(calls)].op = "Get"
    /\ calls[Len(calls)].ret
    /\ entries[calls[Len(calls)].key].LastAccess = clock
    /\ Cardinality(DOMAIN entries) = 2
    /\ \E i \in 1..Len(calls) : calls[i].op = "Get" /\ ~calls[i].ret

-----------------------------------------------------------------------------
(* C28: Delete *)

\* C28: Delete of a cached key removes it, lowers FileCount() by 1 and
\* Size() by the Size of its entry and leaves every other entry as it was;
\* Delete of a key that is not cached changes nothing and invokes no callback
DeleteRemovesOne ==
    [][\A key \in Keys :
          (/\ Len(calls') = Len(calls) + 1
           /\ calls'[Len(calls')].op = "Delete"
           /\ calls'[Len(calls')].key = key)
          => IF key \in DOMAIN entries
             THEN /\ DOMAIN entries' = DOMAIN entries \ {key}
                  /\ \A k \in DOMAIN entries' : entries'[k] = entries[k]
                  /\ fileCount' = fileCount - 1
                  /\ totalSize' = totalSize - entries[key].Size
             ELSE /\ entries' = entries
                  /\ fileCount' = fileCount
                  /\ totalSize' = totalSize
                  /\ evictCounter' = evictCounter
                  /\ onEvictCalls' = onEvictCalls]_vars

\* the last call deleted one of two cached keys, and an earlier Delete was
\* for a key that was not cached
DeleteRemovesOneWitness ==
    /\ Len(calls) > 2
    /\ calls[Len(calls)].op = "Delete"
    /\ Cardinality(DOMAIN entries) = 1
    /\ calls[Len(calls)].key \notin DOMAIN entries
    /\ Len(onEvictCalls) = 1
    /\ calls[1].op = "Delete"

-----------------------------------------------------------------------------
(* C29: requests for preloaded files *)

\* preloadDirectory loaded the file request names: the cache holds it under
\* the key LoadFile was given
Preloaded(cfg, request, ents) ==
    /\ cfg.EnableCache
    /\ PresentRequest(cfg, request)
    /\ \E path \in DOMAIN FS :
          /\ FileOf(cfg, request) = FS[path]
          /\ HasPrefix(path, cfg.Root \o <<Slash>>)
          /\ Rel(cfg.Root, path) \in DOMAIN ents

\* C29: the request for a file preloadDirectory has loaded is a cache hit: it
\* reads no file and adds no cache entry, so the file is cached under one key
PreloadedIsHit ==
    [][(served' = served + 1 /\ Preloaded(config, req', entries)) =>
          /\ resp'.reads = <<>>
          /\ DOMAIN entries' = DOMAIN entries]_vars

-----------------------------------------------------------------------------
(* C21: the requests the middleware declines *)

\* the path the middleware looks at: the index document for the root when
\* the config enables it
EffectivePath(cfg, request) ==
    IF cfg.EnableIndex /\ request.path \in { <<Slash>>, EmptyStr }
    THEN <<Slash>> \o cfg.IndexFile ELSE request.path

\* path ends in one of the configured extensions, letter case ignored
EndsInStaticExt(cfg, path) ==
    \E ext \in cfg.StaticExts :
        /\ Len(path) >= Len(ext)
        /\ \A i \in 1..Len(ext) :
               ToLower(path)[Len(path) - Len(ext) + i] = ToLower(ext)[i]

\* the checks refuse the path: it leaves the root, is hidden or is denied by
\* the admission callback
Refused(cfg, path) ==
    LET trav == IsPathTraversal(Clean(cfg.Root), TrimPrefix(path, <<Slash>>))
    IN \/ ~trav.ok
       \/ cfg.HideDotFiles /\ IsHiddenPath(trav.path)
       \/ ~cfg.OnRequest.nil /\ trav.path \in cfg.OnRequest.denied

\* no file of the content store is at path under the root
NoSuchFile(cfg, path) ==
    Join(Clean(cfg.Root), Clean(<<Slash>> \o path)) \notin DOMAIN FS

\* the writer a handler is handed when nothing was written before it
Untouched == [status |-> NoStatus, body |-> NoBytes, header |-> NoHeader]

\* response is that of a request the middleware passed on as it got it: the
\* handler of the route ran once, on an untouched writer, and what it wrote
\* is the response
PassedOn(response) ==
    /\ ~response.blocked
    /\ response.seen = << Untouched >>
    /\ response.status = StatusOK
    /\ response.body = RouteBody
    /\ response.header = NoHeader

-----------------------------------------------------------------------------
(* C26: a 304 of the middleware ends the chain *)

\* the middleware set status 304 on response
AnsweredNotModified(response) ==
    /\ ~response.blocked
    /\ response.mw.status = StatusNotModified

\* C26: when the middleware answers 304, whichever constructor built it, the
\* handler of the route does not run and the response stays the 304 with no
\* body.
NotModifiedStops ==
    [][(served' = served + 1 /\ AnsweredNotModified(resp')) =>
        /\ resp'.seen = <<>>
        /\ resp'.status = StatusNotModified
        /\ resp'.body = NoBytes]_vars

\* the same for the middlewares built by StaticFileExtsMiddleware alone
NotModifiedStopsFromOptions ==
    [][(served' = served + 1 /\ ~config.withConfig
            /\ AnsweredNotModified(resp')) =>
        /\ resp'.seen = <<>>
        /\ resp'.status = StatusNotModified
        /\ resp'.body = NoBytes]_vars

-----------------------------------------------------------------------------
(* C30: the two constructors of the middleware *)

\* what a client and the chain see of the outcomes of a handler: status,
\* headers, body, and how often the handler of the route ran
Answers(outs) ==
    { [status |-> out.resp.status, header |-> out.resp.header,
       body |-> out.resp.body, next |-> Len(out.resp.seen),
       blocked |-> out.resp.blocked] : out \in outs }

\* C30: on every request, the handler NewStaticFileExtsMiddlewareWithConfig
\* returns for a config answers as the handler StaticFileExtsMiddleware
\* returns for the same config, from the same cache: same status, headers
\* and body, and the next handler runs for the one exactly when it runs for
\* the other.
ConstructorsAgree ==
    [][served' = served + 1 =>
        Answers(NewStaticFileExtsMiddlewareWithConfig(config.cfg, MiddlewareRec,
                                                      req'))
        = Answers(StaticFileExtsMiddleware(config.cfg, MiddlewareRec, req'))]_vars

\* the same for the configs with EnableIndex set and the requests that carry
\* no conditional header
ConstructorsAgreeIndexed ==
    [][(/\ served' = served + 1
        /\ config.cfg.EnableIndex
        /\ req'.ifNoneMatch = EmptyStr
        /\ req'.ifModifiedSince = EmptyStr) =>
        Answers(NewStaticFileExtsMiddlewareWithConfig(config.cfg, MiddlewareRec,
                                                      req'))
        = Answers(StaticFileExtsMiddleware(config.cfg, MiddlewareRec, req'))]_vars

====
